---- MODULE Spec2Model ----
(***************************************************************************)
(* Model of the scoring engine of deteksi_prokrastinasi.py:                *)
(* SistemDeteksiProkrastinasi with its record store (aktivitas, tugas),    *)
(* the cached snapshot metrik_prokrastinasi, the scorer                    *)
(* hitung_indeks_prokrastinasi and the risk predictor                      *)
(* prediksi_risiko_tugas.                                                  *)
(*                                                                         *)
(* Representation.                                                         *)
(*  - A date text "YYYY-MM-DD" is the tuple <<Y, M, D>> of its fields; it  *)
(*    is parsed (validated and turned into a day ordinal) by TanggalSah    *)
(*    and Ordinal.  None is the empty tuple.                               *)
(*  - A Python dict is a function whose DOMAIN is its set of keys; the     *)
(*    empty dict is <<>>.                                                  *)
(*  - Floats are exact rationals in fixed units: durations in tenths of    *)
(*    an hour, scores rounded to two decimals in hundredths, risks in      *)
(*    units of 1/SatuanRisiko.  Comparisons against the thresholds of the  *)
(*    code are cross-multiplied, so no precision is lost.                  *)
(*  - datetime.now() is an input of the call that reads it: the pair       *)
(*    <<date, hour of the day>>.  One predictor call reads the clock twice *)
(*    within the same instant; both reads return the same value.           *)
(*  - The dates stored in tasks and activities are calendar dates          *)
(*    (pd.to_datetime parses them); only the predictor's deadline text     *)
(*    may fail to parse.                                                   *)
(*  - berkas is the content of the JSON file data_prokrastinasi.json: the  *)
(*    dict that json.load returns, or TidakAda while the file does not     *)
(*    exist.  A JSON object is a function on its keys, JSON null is        *)
(*    JsonNull, a JSON list is a sequence.                                 *)
(***************************************************************************)
EXTENDS Integers, Sequences, FiniteSets, TLC

VARIABLES aktivitas, tugas, metrik_prokrastinasi, hasil, berkas

vars == <<aktivitas, tugas, metrik_prokrastinasi, hasil, berkas>>

(***************************************************************************)
(* Bounds of the model.                                                    *)
(***************************************************************************)
\* longest Tasks / Activities list built by tambah_tugas / tambah_aktivitas
MaxTugas == 2
MaxAktivitas == 2
\* longest Tasks / Activities list drawn as input of the scorer (SpecSkor)
MaxTugasSkor == 7
MaxAktivitasSkor == 7

\* the most activities of a list given to the analyzer
MaxAktivitasAnalisis == 7

(***************************************************************************)
(* Generic helpers.                                                        *)
(***************************************************************************)
None == <<>>

\* the text '' (a date text is a tuple <<year, month, day>>)
TeksKosong == <<"">>

Min(a, b) == IF a < b THEN a ELSE b

Max(a, b) == IF a > b THEN a ELSE b

\* round(n/d) to the nearest integer, ties to even (Python's round), n >= 0
Bulat(n, d) ==
    LET q == n \div d
        r == n % d
    IN  IF 2 * r > d THEN q + 1
        ELSE IF 2 * r < d THEN q
        ELSE IF q % 2 = 0 THEN q ELSE q + 1

RECURSIVE Jumlah(_)
\* sum of a sequence of integers
Jumlah(s) == IF s = <<>> THEN 0 ELSE Head(s) + Jumlah(Tail(s))

\* n copies of x
Ulang(x, n) == [i \in 1..n |-> x]

(***************************************************************************)
(* Dates: datetime.strptime(text, '%Y-%m-%d') / pd.to_datetime.            *)
(***************************************************************************)
Kabisat(y) == (y % 4 = 0) /\ ((y % 100 # 0) \/ (y % 400 = 0))

HariDalamBulan(y, m) ==
    IF m = 2 THEN (IF Kabisat(y) THEN 29 ELSE 28)
    ELSE IF m \in {4, 6, 9, 11} THEN 30 ELSE 31

\* a parser that checks the year and the month of the text but not its day
TanggalSah_TanpaHari(t) ==
    /\ Len(t) = 3
    /\ t[1] \in 1..9999
    /\ t[2] \in 1..12

\* does the text parse as a calendar date (otherwise strptime raises ValueError)
TanggalSah(t) ==
    /\ Len(t) = 3
    /\ t[1] \in 1..9999
    /\ t[2] \in 1..12
    /\ t[3] \in 1..HariDalamBulan(t[1], t[2])

RECURSIVE HariSebelumBulan(_, _)
HariSebelumBulan(y, m) ==
    IF m = 1 THEN 0 ELSE HariSebelumBulan(y, m - 1) + HariDalamBulan(y, m - 1)

\* the proleptic Gregorian day number of a valid date (date.toordinal)
Ordinal(t) ==
    LET y == t[1] - 1
    IN  y * 365 + (y \div 4) - (y \div 100) + (y \div 400)
        + HariSebelumBulan(t[1], t[2]) + t[3]

RECURSIVE KurangHari(_, _)
\* the date k >= 0 days before the date t (t - timedelta(days = k))
KurangHari(t, k) ==
    IF k < t[3] THEN <<t[1], t[2], t[3] - k>>
    ELSE KurangHari(IF t[2] = 1 THEN <<t[1] - 1, 12, 31>>
                    ELSE <<t[1], t[2] - 1, HariDalamBulan(t[1], t[2] - 1)>>,
                    k - t[3])

RECURSIVE TambahHari(_, _)
\* the date k >= 0 days after the date t (t + timedelta(days = k))
TambahHari(t, k) ==
    IF t[3] + k <= HariDalamBulan(t[1], t[2]) THEN <<t[1], t[2], t[3] + k>>
    ELSE TambahHari(IF t[2] = 12 THEN <<t[1] + 1, 1, 1>> ELSE <<t[1], t[2] + 1, 1>>,
                    k - (HariDalamBulan(t[1], t[2]) - t[3] + 1))

(***************************************************************************)
(* Records of the store.                                                   *)
(***************************************************************************)
\* AktivitasMahasiswa (durasi in tenths of an hour)
Aktivitas(jenis, durasi, tanggal, waktu_mulai, produktivitas) ==
    [id_aktivitas |-> 1, jenis |-> jenis, deskripsi |-> "a",
     durasi |-> durasi, tanggal |-> tanggal, waktu_mulai |-> waktu_mulai,
     deadline_terkait |-> None, tingkat_kesulitan |-> 1,
     produktivitas |-> produktivitas]

\* TugasMahasiswa (estimasi_waktu in tenths of an hour)
Tugas(status, tanggal_diberikan, tanggal_selesai) ==
    [id_tugas |-> 1, mata_kuliah |-> "mk", deskripsi |-> "t",
     deadline |-> <<2024, 2, 1>>, tanggal_diberikan |-> tanggal_diberikan,
     status |-> status, tanggal_selesai |-> tanggal_selesai,
     tingkat_kesulitan |-> 3, estimasi_waktu |-> 50, waktu_aktual |-> None]

(***************************************************************************)
(* The scorer: hitung_indeks_prokrastinasi.                                *)
(***************************************************************************)
maksimum_skor == 11

\* factor 1 with the lowest tier (some task late, at most 15%) left out
SkorKeterlambatan_TanpaTingkatSatu(tugas_terlambat, total_tugas) ==
    IF tugas_terlambat * 100 > 30 * total_tugas THEN 3
    ELSE IF tugas_terlambat * 100 > 15 * total_tugas THEN 2
    ELSE 0

\* factor 1: score of the share of late tasks (persentase_terlambat =
\* tugas_terlambat / total_tugas * 100, compared cross-multiplied)
SkorKeterlambatan(tugas_terlambat, total_tugas) ==
    IF tugas_terlambat * 100 > 30 * total_tugas THEN 3
    ELSE IF tugas_terlambat * 100 > 15 * total_tugas THEN 2
    ELSE IF tugas_terlambat * 100 > 0 THEN 1
    ELSE 0

FaktorKeterlambatan(tgs) ==
    LET Terlambat(t) == t.status = "terlambat"
        tugas_terlambat == Len(SelectSeq(tgs, Terlambat))
        total_tugas == Len(tgs)
    IN  [skor |-> SkorKeterlambatan(tugas_terlambat, total_tugas),
         persentase_terlambat |-> Bulat(tugas_terlambat * 10000, total_tugas),
         jumlah_tugas_terlambat |-> tugas_terlambat,
         total_tugas |-> total_tugas]

\* factor 2 with the top threshold at three weeks instead of two
SkorWaktu_TigaMinggu(jumlah_hari, jumlah_tugas) ==
    IF jumlah_hari > 21 * jumlah_tugas THEN 3
    ELSE IF jumlah_hari > 7 * jumlah_tugas THEN 2
    ELSE IF jumlah_hari > 3 * jumlah_tugas THEN 1
    ELSE 0

\* factor 2: score of the mean completion lag jumlah_hari / jumlah_tugas days
SkorWaktu(jumlah_hari, jumlah_tugas) ==
    IF jumlah_hari > 14 * jumlah_tugas THEN 3
    ELSE IF jumlah_hari > 7 * jumlah_tugas THEN 2
    ELSE IF jumlah_hari > 3 * jumlah_tugas THEN 1
    ELSE 0

\* the tasks whose status is "selesai"
TugasSelesai_MenurutStatus(tgs) ==
    LET Ada(t) == t.status = "selesai"
    IN  SelectSeq(tgs, Ada)

\* mask_selesai: the tasks whose tanggal_selesai is present (pd.to_datetime
\* turns None and '' into NaT)
TugasSelesai(tgs) ==
    LET Ada(t) == t.tanggal_selesai \notin {None, TeksKosong}
    IN  SelectSeq(tgs, Ada)

FaktorWaktuPengerjaan(tgs) ==
    LET df_tugas_selesai == TugasSelesai(tgs)
        waktu_pengerjaan ==
            [i \in 1..Len(df_tugas_selesai) |->
                Ordinal(df_tugas_selesai[i].tanggal_selesai)
                    - Ordinal(df_tugas_selesai[i].tanggal_diberikan)]
        jumlah_hari == Jumlah(waktu_pengerjaan)
        jumlah_tugas == Len(df_tugas_selesai)
    IN  [skor |-> SkorWaktu(jumlah_hari, jumlah_tugas),
         rata_rata_hari |-> Bulat(jumlah_hari * 100, jumlah_tugas),
         jumlah_tugas_selesai |-> jumlah_tugas]

\* factor 3: score of rasio_hiburan = waktu_hiburan / total_waktu * 100
SkorRasio(waktu_hiburan, total_waktu) ==
    IF waktu_hiburan * 100 > 40 * total_waktu THEN 3
    ELSE IF waktu_hiburan * 100 > 25 * total_waktu THEN 2
    ELSE IF waktu_hiburan * 100 > 15 * total_waktu THEN 1
    ELSE 0

\* total duration of the activities of one category (tenths of an hour)
WaktuJenis(akt, jenis) ==
    LET Sejenis(a) == a.jenis = jenis
        baris == SelectSeq(akt, Sejenis)
    IN  Jumlah([i \in 1..Len(baris) |-> baris[i].durasi])

TotalWaktu(akt) == Jumlah([i \in 1..Len(akt) |-> akt[i].durasi])

\* factor 3 with the productive time taken from the study activities alone
FaktorRasioHiburan_TanpaTugas(akt) ==
    LET waktu_belajar == WaktuJenis(akt, "belajar")
        waktu_hiburan == WaktuJenis(akt, "hiburan")
        total_waktu == TotalWaktu(akt)
        waktu_produktif == waktu_belajar
    IN  [skor |-> SkorRasio(waktu_hiburan, total_waktu),
         persentase_hiburan |-> Bulat(waktu_hiburan * 10000, total_waktu),
         persentase_produktif |-> Bulat(waktu_produktif * 10000, total_waktu),
         waktu_hiburan |-> waktu_hiburan * 10,
         waktu_produktif |-> waktu_produktif * 10]

FaktorRasioHiburan(akt) ==
    LET waktu_belajar == WaktuJenis(akt, "belajar")
        waktu_tugas == WaktuJenis(akt, "tugas")
        waktu_hiburan == WaktuJenis(akt, "hiburan")
        total_waktu == TotalWaktu(akt)
        waktu_produktif == waktu_belajar + waktu_tugas
    IN  [skor |-> SkorRasio(waktu_hiburan, total_waktu),
         persentase_hiburan |-> Bulat(waktu_hiburan * 10000, total_waktu),
         persentase_produktif |-> Bulat(waktu_produktif * 10000, total_waktu),
         waktu_hiburan |-> waktu_hiburan * 10,
         waktu_produktif |-> waktu_produktif * 10]

\* groupby('tanggal').size(): the number of activities of each distinct date
AktivitasHarian(akt) ==
    LET hari == {Ordinal(akt[i].tanggal) : i \in 1..Len(akt)}
    IN  [d \in hari |-> Cardinality({i \in 1..Len(akt) : Ordinal(akt[i].tanggal) = d})]

RECURSIVE JumlahFungsi(_, _)
\* the sum of f[d] over the days d of D
JumlahFungsi(f, D) ==
    IF D = {} THEN 0
    ELSE LET d == CHOOSE x \in D : TRUE
         IN  f[d] + JumlahFungsi(f, D \ {d})

\* The sample variance (ddof = 1) of the daily counts c_1..c_n is
\* VarPembilang / VarPenyebut = (n * S2 - S1^2) / (n * (n - 1)),
\* with S1 the sum of the counts and S2 the sum of their squares.
VarPembilang(harian) ==
    LET n == Cardinality(DOMAIN harian)
        S1 == JumlahFungsi(harian, DOMAIN harian)
        S2 == JumlahFungsi([d \in DOMAIN harian |-> harian[d] * harian[d]],
                           DOMAIN harian)
    IN  n * S2 - S1 * S1

\* the denominator of the population variance (ddof = 0)
VarPenyebut_Populasi(harian) ==
    LET n == Cardinality(DOMAIN harian)
    IN  n * n

VarPenyebut(harian) ==
    LET n == Cardinality(DOMAIN harian)
    IN  n * (n - 1)

\* factor 4: score of deviasi_konsistensi = sqrt(pembilang / penyebut);
\* std > 3 iff var > 9, std > 1.5 iff 4 * var > 9
SkorKonsistensi(pembilang, penyebut) ==
    IF pembilang > 9 * penyebut THEN 2
    ELSE IF 4 * pembilang > 9 * penyebut THEN 1
    ELSE 0

\* round(100 * sqrt(pembilang / penyebut)): the standard deviation in hundredths
AkarSeratus(pembilang, penyebut) ==
    CHOOSE k \in 0..(100 * pembilang + 1) :
        /\ (k = 0 \/ (2 * k - 1) * (2 * k - 1) * penyebut <= 40000 * pembilang)
        /\ 40000 * pembilang < (2 * k + 1) * (2 * k + 1) * penyebut

FaktorKonsistensi(akt) ==
    LET aktivitas_harian == AktivitasHarian(akt)
        pembilang == VarPembilang(aktivitas_harian)
        penyebut == VarPenyebut(aktivitas_harian)
        jumlah_hari == Cardinality(DOMAIN aktivitas_harian)
    IN  [skor |-> SkorKonsistensi(pembilang, penyebut),
         deviasi_aktivitas |-> AkarSeratus(pembilang, penyebut),
         rata_aktivitas_harian |-> Bulat(Len(akt) * 100, jumlah_hari),
         jumlah_hari |-> jumlah_hari]

\* faktor_penilaian: one entry per factor that was assessed
FaktorPenilaian(tgs, akt) ==
    [f \in {"keterlambatan"} |-> FaktorKeterlambatan(tgs)]
    @@ (IF TugasSelesai(tgs) # <<>>
        THEN [f \in {"waktu_pengerjaan"} |-> FaktorWaktuPengerjaan(tgs)]
        ELSE <<>>)
    @@ (IF akt # <<>> /\ TotalWaktu(akt) > 0
        THEN [f \in {"rasio_hiburan"} |-> FaktorRasioHiburan(akt)]
        ELSE <<>>)
    @@ (IF akt # <<>> /\ Cardinality(DOMAIN AktivitasHarian(akt)) > 1
        THEN [f \in {"konsistensi"} |-> FaktorKonsistensi(akt)]
        ELSE <<>>)

\* skor_total before normalisation: the sum of the scores of the assessed factors
SkorMentah(faktor_penilaian) ==
    JumlahFungsi([f \in DOMAIN faktor_penilaian |-> faktor_penilaian[f].skor],
                 DOMAIN faktor_penilaian)

\* normalisation that divides by 10 instead of maksimum_skor
SkorNormalized_BagiSepuluh(skor_total) ==
    Min(10 * 100 * maksimum_skor,
        IF skor_total > 0 THEN skor_total * 100 * maksimum_skor ELSE 0)

\* skor_normalized = min(10.0, skor_total / maksimum_skor * 10), as the
\* numerator of a fraction with denominator 100 * maksimum_skor
SkorNormalized(skor_total) ==
    Min(10 * 100 * maksimum_skor,
        IF skor_total > 0 THEN skor_total * 10 * 100 ELSE 0)

\* tiers with exclusive lower bounds
Tingkat_BatasEksklusif(skor_normalized) ==
    IF skor_normalized > 800 * maksimum_skor THEN "TINGGI"
    ELSE IF skor_normalized > 600 * maksimum_skor THEN "SEDANG-TINGGI"
    ELSE IF skor_normalized > 400 * maksimum_skor THEN "SEDANG"
    ELSE IF skor_normalized > 200 * maksimum_skor THEN "RENDAH-SEDANG"
    ELSE "RENDAH"

\* the tier of skor_normalized (numerator over 100 * maksimum_skor)
Tingkat(skor_normalized) ==
    IF skor_normalized >= 800 * maksimum_skor THEN "TINGGI"
    ELSE IF skor_normalized >= 600 * maksimum_skor THEN "SEDANG-TINGGI"
    ELSE IF skor_normalized >= 400 * maksimum_skor THEN "SEDANG"
    ELSE IF skor_normalized >= 200 * maksimum_skor THEN "RENDAH-SEDANG"
    ELSE "RENDAH"

\* the recommendation text of a tier (its leading words)
Rekomendasi(skor_normalized) ==
    IF skor_normalized >= 800 * maksimum_skor THEN "PERLU INTERVENSI SERIUS!"
    ELSE IF skor_normalized >= 600 * maksimum_skor THEN "PERLU PERBAIKAN SEGERA!"
    ELSE IF skor_normalized >= 400 * maksimum_skor THEN "PERLU PERBAIKAN."
    ELSE IF skor_normalized >= 200 * maksimum_skor THEN "CUKUP BAIK."
    ELSE "SANGAT BAIK!"

\* the snapshot the scorer builds from a non-empty Tasks list
\* (skor_total is round(skor_normalized, 2) in hundredths)
HitungIndeks(tgs, akt) ==
    LET faktor_penilaian == FaktorPenilaian(tgs, akt)
        skor_total == SkorMentah(faktor_penilaian)
        skor_normalized == SkorNormalized(skor_total)
    IN  [skor_total |-> Bulat(skor_normalized, maksimum_skor),
         skor_mentah |-> skor_total,
         maksimum_skor |-> maksimum_skor,
         tingkat |-> Tingkat(skor_normalized),
         faktor_penilaian |-> faktor_penilaian,
         rekomendasi |-> Rekomendasi(skor_normalized)]

GalatTugasKosong == [error |-> "Tidak ada data tugas"]

(***************************************************************************)
(* The time-distribution analyzer: analisis_pola_waktu.                    *)
(***************************************************************************)
GalatAktivitasKosong == [error |-> "Tidak ada data aktivitas"]

\* parse_waktu_mulai(...).hour: the hour of a start time <<hour, minute>>, and
\* 12 when the text is no time of day
JamMulai(waktu_mulai) ==
    IF waktu_mulai[1] \in 0..23 /\ waktu_mulai[2] \in 0..59 THEN waktu_mulai[1]
    ELSE 12

\* kategorikan_jam with hour 17 counted as afternoon
KategorikanJam_SiangSampai17(jam) ==
    IF 5 <= jam /\ jam < 12 THEN "Pagi"
    ELSE IF 12 <= jam /\ jam <= 17 THEN "Siang"
    ELSE IF 17 < jam /\ jam < 22 THEN "Sore/Malam"
    ELSE "Tengah Malam"

\* kategorikan_jam
KategorikanJam(jam) ==
    IF 5 <= jam /\ jam < 12 THEN "Pagi"
    ELSE IF 12 <= jam /\ jam < 17 THEN "Siang"
    ELSE IF 17 <= jam /\ jam < 22 THEN "Sore/Malam"
    ELSE "Tengah Malam"

RECURSIVE FPB(_, _)
\* the greatest common divisor of two naturals
FPB(a, b) == IF b = 0 THEN a ELSE FPB(b, a % b)

\* the mean jumlah / banyak of banyak > 0 integers, as a fraction in lowest
\* terms <<numerator, denominator>>
RataRata(jumlah, banyak) ==
    LET g == FPB(jumlah, banyak)
    IN  <<jumlah \div g, banyak \div g>>

\* a share of the total duration cut to two decimals instead of rounded
PersentaseWaktu_Potong(durasi, total_waktu) ==
    IF total_waktu = 0 THEN "nan" ELSE (durasi * 10000) \div total_waktu

\* (distribusi_waktu / total_waktu * 100).round(2) for one category, in
\* hundredths; "nan" when the total duration is 0 (pandas divides 0.0 by 0.0)
PersentaseWaktu(durasi, total_waktu) ==
    IF total_waktu = 0 THEN "nan" ELSE Bulat(durasi * 10000, total_waktu)

\* the result of analisis_pola_waktu for a non-empty Activities list:
\* durations in tenths of an hour, percentages in hundredths ("nan" when the
\* total duration is 0: pandas divides 0.0 by 0.0)
AnalisisPolaWaktu(akt) ==
    LET jenis == {akt[i].jenis : i \in 1..Len(akt)}
        distribusi_waktu == [j \in jenis |-> WaktuJenis(akt, j)]
        total_waktu == TotalWaktu(akt)
        periode_hari == [i \in 1..Len(akt) |-> KategorikanJam(JamMulai(akt[i].waktu_mulai))]
        periode == {periode_hari[i] : i \in 1..Len(akt)}
        Baris(p) == {i \in 1..Len(akt) : periode_hari[i] = p}
    IN  [distribusi_waktu |-> distribusi_waktu,
         persentase_waktu |->
             [j \in jenis |-> PersentaseWaktu(distribusi_waktu[j], total_waktu)],
         total_waktu_tercatat |-> total_waktu,
         waktu_produktif |->
             [p \in periode |->
                 RataRata(JumlahFungsi([i \in Baris(p) |-> akt[i].produktivitas], Baris(p)),
                          Cardinality(Baris(p)))],
         rata_rata_produktivitas |->
             RataRata(Jumlah([i \in 1..Len(akt) |-> akt[i].produktivitas]), Len(akt))]

(***************************************************************************)
(* Persistence: simpan_data and muat_data.                                 *)
(***************************************************************************)
\* os.path.exists(filename) is false
TidakAda == <<>>

\* JSON null
JsonNull == <<"null", "null">>

\* the fields declared Optional[...] in the dataclasses
KolomOpsional == {"deadline_terkait", "tanggal_selesai", "waktu_aktual"}

KolomAktivitas ==
    {"id_aktivitas", "jenis", "deskripsi", "durasi", "tanggal", "waktu_mulai",
     "deadline_terkait", "tingkat_kesulitan", "produktivitas"}

\* the fields of AktivitasMahasiswa that have a default value
BawaanAktivitas ==
    [deadline_terkait |-> None, tingkat_kesulitan |-> 1, produktivitas |-> 3]

KolomTugas ==
    {"id_tugas", "mata_kuliah", "deskripsi", "deadline", "tanggal_diberikan",
     "status", "tanggal_selesai", "tingkat_kesulitan", "estimasi_waktu",
     "waktu_aktual"}

\* the fields of TugasMahasiswa that have a default value
BawaanTugas ==
    [tanggal_selesai |-> None, tingkat_kesulitan |-> 3, estimasi_waktu |-> 50,
     waktu_aktual |-> None]

\* asdict(record) as json.dump writes it: one member per field, None as null
AsDict(rekaman) ==
    [f \in DOMAIN rekaman |->
        IF f \in KolomOpsional /\ rekaman[f] = None THEN JsonNull ELSE rekaman[f]]

\* does Dataclass(**data) succeed: data is an object that has every field
\* without a default and no member that is not a field
RekamanSah(data, kolom, bawaan) ==
    /\ (kolom \ DOMAIN bawaan) \subseteq DOMAIN data
    /\ DOMAIN data \subseteq kolom

\* Dataclass(**data): the members as json.load returns them (null as None),
\* the default of every field that data lacks
DariDict(data, kolom, bawaan) ==
    [f \in kolom |->
        IF f \in DOMAIN data
        THEN IF f \in KolomOpsional /\ data[f] = JsonNull THEN None ELSE data[f]
        ELSE bawaan[f]]

\* the records that one loop of muat_data appends: those of the JSON list
\* that build a dataclass, in the order of the list
DaftarDimuat(daftar, kolom, bawaan) ==
    LET Sah(data) == RekamanSah(data, kolom, bawaan)
        sah == SelectSeq(daftar, Sah)
    IN  [i \in 1..Len(sah) |-> DariDict(sah[i], kolom, bawaan)]

\* the "Error loading ..." lines that one loop of muat_data prints: one for
\* every record of the JSON list that builds no dataclass
GalatMuat(daftar, kolom, bawaan, baris) ==
    LET Sah(data) == RekamanSah(data, kolom, bawaan)
    IN  [i \in 1..(Len(daftar) - Len(SelectSeq(daftar, Sah))) |-> baris]

\* the dict that simpan_data dumps (tanggal_update is the text of now)
IsiBerkas(akt, tgs, metrik, hari_ini) ==
    [mahasiswa |-> [nama |-> "nama", nim |-> "nim"],
     aktivitas |-> [i \in 1..Len(akt) |-> AsDict(akt[i])],
     tugas |-> [i \in 1..Len(tgs) |-> AsDict(tgs[i])],
     metrik_prokrastinasi |-> metrik,
     tanggal_update |-> hari_ini]

\* data.get(kunci, bawaan)
Ambil(data, kunci, bawaan) ==
    IF kunci \in DOMAIN data THEN data[kunci] ELSE bawaan

\* the lists that muat_data loads from a file that has its 'mahasiswa' member
AktivitasDimuat(data) ==
    DaftarDimuat(Ambil(data, "aktivitas", <<>>), KolomAktivitas, BawaanAktivitas)

TugasDimuat(data) ==
    DaftarDimuat(Ambil(data, "tugas", <<>>), KolomTugas, BawaanTugas)

\* a load that keeps the snapshot of the session
MetrikDimuat_Tetap(data) == metrik_prokrastinasi

MetrikDimuat(data) == Ambil(data, "metrik_prokrastinasi", <<>>)

(***************************************************************************)
(* generate_data_dummy.  The draws of np.random are inputs; pola picks one *)
(* outcome of all of them.                                                 *)
(***************************************************************************)
JumlahAktivitasDummy == 30

JumlahTugasDummy == 10

\* the patterns of draws: 0..3 rotate through the four statuses, 4..7 draw
\* the same status for every task
PolaDummy == 0..7

JenisDummy == <<"belajar", "tugas", "istirahat", "hiburan", "lainnya">>

WaktuMulaiDummy == <<<<8, 0>>, <<10, 0>>, <<13, 0>>, <<15, 0>>, <<19, 0>>, <<21, 0>>>>

StatusDummy == <<"selesai", "dikerjakan", "belum", "terlambat">>

\* the i-th activity of the loop, i = 0..29 (durasi in tenths of an hour
\* from 0.5..3.0, produktivitas from 2..8, tingkat_kesulitan from 1..7)
AktivitasDummyKe(i, hari_ini, pola) ==
    LET jenis == JenisDummy[(i % 5) + 1]
    IN  [id_aktivitas |-> i + 1, jenis |-> jenis, deskripsi |-> "a",
         durasi |-> 5 + ((i + pola) % 26),
         tanggal |-> TambahHari(KurangHari(hari_ini[1], 14), i % 7),
         waktu_mulai |-> WaktuMulaiDummy[(i % 6) + 1],
         deadline_terkait |-> None,
         tingkat_kesulitan |->
            IF jenis \in {"belajar", "tugas"} THEN 1 + ((i + pola) % 7) ELSE 1,
         produktivitas |-> 2 + ((i + pola) % 7)]

AktivitasDummy(hari_ini, pola) ==
    [k \in 1..JumlahAktivitasDummy |-> AktivitasDummyKe(k - 1, hari_ini, pola)]

\* the i-th task of the loop, i = 0..9: deadline 1..29 days ahead, given
\* 5..14 days before it; finished 1..4 days after it was given and actual
\* hours (tenths, from 2..8) only when the drawn status is 'selesai'
TugasDummyKe(i, hari_ini, pola) ==
    LET deadline_date == TambahHari(hari_ini[1], 1 + ((7 * i + pola) % 29))
        given_date == KurangHari(deadline_date, 5 + ((i + pola) % 10))
        status == IF pola < 4 THEN StatusDummy[((i + pola) % 4) + 1]
                  ELSE StatusDummy[pola - 3]
    IN  [id_tugas |-> i + 1, mata_kuliah |-> "mk", deskripsi |-> "t",
         deadline |-> deadline_date, tanggal_diberikan |-> given_date,
         status |-> status,
         tanggal_selesai |->
            IF status = "selesai" THEN TambahHari(given_date, 1 + ((i + pola) % 4))
            ELSE None,
         tingkat_kesulitan |-> 2 + ((i + pola) % 7),
         estimasi_waktu |-> 30 + ((i + pola) % 70),
         waktu_aktual |->
            IF status = "selesai" THEN <<20 + ((i + pola) % 60)>> ELSE None]

TugasDummy(hari_ini, pola) ==
    [k \in 1..JumlahTugasDummy |-> TugasDummyKe(k - 1, hari_ini, pola)]

(***************************************************************************)
(* The risk predictor: prediksi_risiko_tugas.                              *)
(***************************************************************************)
\* risks are numerators of fractions with this denominator
SatuanRisiko == 2 * 100000

GalatFormatDeadline ==
    [error |-> "Format deadline tidak valid. Gunakan format YYYY-MM-DD"]

\* days remaining without the clamp at 0
HariTersisa_TanpaBatas(deadline, hari_ini) ==
    (Ordinal(deadline) * 24 - (Ordinal(hari_ini[1]) * 24 + hari_ini[2])) \div 24

\* (deadline_dt - hari_ini).days, clamped at 0: deadline_dt is midnight of the
\* deadline, hari_ini is datetime.now() = <<date, hour of the day>>, and the
\* days of a timedelta are the floor of its length in days
HariTersisa(deadline, hari_ini) ==
    LET selisih_jam == Ordinal(deadline) * 24 - (Ordinal(hari_ini[1]) * 24 + hari_ini[2])
        hari_tersisa == selisih_jam \div 24
    IN  IF hari_tersisa < 0 THEN 0 ELSE hari_tersisa

\* metrik_prokrastinasi.get('skor_total', 5.0), in hundredths
FaktorSkor(metrik) ==
    IF "skor_total" \in DOMAIN metrik THEN metrik.skor_total ELSE 500

\* risiko_dasar = faktor_skor / 10 * 0.6 + tingkat_kesulitan / 10.0 * 0.4.
\* Exact values are multiples of 40.  The code computes in binary floating
\* point; a result that lies just above its exact value is written as the
\* exact value plus one unit.  Over all scores in hundredths 0.00 .. 10.00 and
\* difficulties 1 .. 10, double arithmetic leaves the sum above a category
\* boundary in one case: 9.0 / 10 * 0.6 + 4 / 10.0 * 0.4 = 0.7000000000000001.
RisikoDasar(faktor_skor, tingkat_kesulitan) ==
    faktor_skor * 120 + tingkat_kesulitan * 8000
        + (IF faktor_skor = 900 /\ tingkat_kesulitan = 4 THEN 1 ELSE 0)

\* risiko_penyesuaian without the cap at 1.0
RisikoPenyesuaian_TanpaBatas(risiko_dasar, hari_tersisa) ==
    IF hari_tersisa < 3 THEN (risiko_dasar * 3) \div 2
    ELSE IF hari_tersisa < 7 THEN (risiko_dasar * 6) \div 5
    ELSE risiko_dasar

\* risiko_penyesuaian with the boundaries of the urgency bands included
RisikoPenyesuaian_BatasInklusif(risiko_dasar, hari_tersisa) ==
    IF hari_tersisa <= 3 THEN Min(SatuanRisiko, (risiko_dasar * 3) \div 2)
    ELSE IF hari_tersisa <= 7 THEN Min(SatuanRisiko, (risiko_dasar * 6) \div 5)
    ELSE Min(SatuanRisiko, risiko_dasar)

\* risiko_penyesuaian: the urgency adjustment of the base risk.  In double
\* arithmetic 0.2 * 1.5 = 0.30000000000000004, the one product of a base risk
\* that lands above a category boundary instead of on it (base risk 0.2 is
\* numerator 40000); it is written as the exact value plus one unit.
RisikoPenyesuaian(risiko_dasar, hari_tersisa) ==
    IF hari_tersisa < 3
    THEN Min(SatuanRisiko, (risiko_dasar * 3) \div 2
                               + (IF risiko_dasar = 40000 THEN 1 ELSE 0))
    ELSE IF hari_tersisa < 7 THEN Min(SatuanRisiko, (risiko_dasar * 6) \div 5)
    ELSE Min(SatuanRisiko, risiko_dasar)

KategoriRisiko(risiko) ==
    IF 10 * risiko > 7 * SatuanRisiko THEN "SANGAT TINGGI"
    ELSE IF 10 * risiko > 5 * SatuanRisiko THEN "TINGGI"
    ELSE IF 10 * risiko > 3 * SatuanRisiko THEN "SEDANG"
    ELSE "RENDAH"

TindakanRekomendasi(risiko) ==
    IF 10 * risiko > 7 * SatuanRisiko
    THEN "Segera mulai kerjakan hari ini! Buat rencana harian."
    ELSE IF 10 * risiko > 5 * SatuanRisiko
    THEN "Buat deadline internal lebih awal dari deadline sebenarnya."
    ELSE IF 10 * risiko > 3 * SatuanRisiko
    THEN "Breakdown tugas menjadi subtask kecil."
    ELSE "Pertahankan konsistensi pengerjaan."

\* predicted days without the minimum of one day
HariPrediksi_TanpaMinimum(hari_tersisa, risiko) ==
    IF 10 * risiko > 7 * SatuanRisiko THEN (hari_tersisa * 2) \div 10
    ELSE IF 10 * risiko > 5 * SatuanRisiko THEN (hari_tersisa * 4) \div 10
    ELSE IF 10 * risiko > 3 * SatuanRisiko THEN (hari_tersisa * 6) \div 10
    ELSE (hari_tersisa * 8) \div 10

\* predicted days with the fractions of the risk bands in reverse order
HariPrediksi_FaktorTerbalik(hari_tersisa, risiko) ==
    IF 10 * risiko > 7 * SatuanRisiko THEN Max(1, (hari_tersisa * 8) \div 10)
    ELSE IF 10 * risiko > 5 * SatuanRisiko THEN Max(1, (hari_tersisa * 6) \div 10)
    ELSE IF 10 * risiko > 3 * SatuanRisiko THEN Max(1, (hari_tersisa * 4) \div 10)
    ELSE Max(1, (hari_tersisa * 2) \div 10)

\* hari_prediksi: the days from today to the predicted completion
HariPrediksi(hari_tersisa, risiko) ==
    IF 10 * risiko > 7 * SatuanRisiko THEN Max(1, (hari_tersisa * 2) \div 10)
    ELSE IF 10 * risiko > 5 * SatuanRisiko THEN Max(1, (hari_tersisa * 4) \div 10)
    ELSE IF 10 * risiko > 3 * SatuanRisiko THEN Max(1, (hari_tersisa * 6) \div 10)
    ELSE Max(1, (hari_tersisa * 8) \div 10)

\* _prediksi_tanggal_selesai: the predicted completion date text
PrediksiTanggalSelesai(hari_tersisa, risiko, hari_ini) ==
    IF hari_tersisa <= 0 THEN hari_ini[1]
    ELSE TambahHari(hari_ini[1], HariPrediksi(hari_tersisa, risiko))

\* round(risiko_penyesuaian * 10, 2) in hundredths.  The code rounds a binary
\* float: when the exact value lies halfway between two hundredths the float
\* lies on either side of the tie, so both neighbours are possible outcomes.
SkorRisikoMungkin(risiko) ==
    LET n == risiko * 1000
        q == n \div SatuanRisiko
    IN  IF 2 * (n % SatuanRisiko) = SatuanRisiko THEN {q, q + 1}
        ELSE {Bulat(n, SatuanRisiko)}

(***************************************************************************)
(* Inputs.                                                                 *)
(***************************************************************************)
\* tasks: late and never completed; done 19 days and 5 days after being
\* given; pending
TugasTerlambat == Tugas("terlambat", <<2024, 1, 1>>, None)

TugasSelesaiLama == Tugas("selesai", <<2024, 1, 1>>, <<2024, 1, 20>>)

TugasSelesaiCepat == Tugas("selesai", <<2024, 1, 1>>, <<2024, 1, 6>>)

TugasBelum == Tugas("belum", <<2024, 1, 1>>, None)

\* a task marked late that carries a completion date 2 days after it was given
TugasTerlambatSelesai == Tugas("terlambat", <<2024, 1, 1>>, <<2024, 1, 3>>)

\* the tasks added during a session
TugasMasukan == {TugasTerlambat, TugasSelesaiLama, TugasBelum}

\* activities (the third has a start time that does not parse)
AktivitasHiburan == Aktivitas("hiburan", 20, <<2024, 1, 10>>, <<21, 0>>, 3)

AktivitasBelajar == Aktivitas("belajar", 30, <<2024, 1, 10>>, <<8, 0>>, 8)

AktivitasTugas == Aktivitas("tugas", 15, <<2024, 1, 11>>, <<25, 0>>, 5)

\* an activity of another category that lasted no time, on a third date
AktivitasNol == Aktivitas("istirahat", 0, <<2024, 1, 12>>, <<23, 30>>, 1)

\* the activities added during a session
AktivitasMasukan == {AktivitasHiburan, AktivitasTugas}

\* the deadline texts given to the predictor: 2 days before 2024-01-30, that
\* day, 2, 3, 7, 20 and 45 days after it, a text that is no calendar date
\* ("2024-02-30") and a text that lacks a field ("2024-01")
DeadlineMasukan ==
    {<<2024, 1, 28>>, <<2024, 1, 30>>, <<2024, 2, 1>>, <<2024, 2, 2>>,
     <<2024, 2, 6>>, <<2024, 2, 19>>, <<2024, 3, 15>>, <<2024, 2, 30>>,
     <<2024, 1>>}

KesulitanMasukan == 1..10

\* the values datetime.now() takes: midnight and early afternoon of 2024-01-30
SekarangMasukan == {<<<<2024, 1, 30>>, 0>>, <<<<2024, 1, 30>>, 13>>}

\* the predictor's inputs during a session
DeadlineSesi == {<<2024, 1, 28>>, <<2024, 2, 1>>, <<2024, 2, 6>>, <<2024, 2, 30>>}

KesulitanSesi == {8}

SekarangSesi == SekarangMasukan

(***************************************************************************)
(* The session: state after construction and one action per operation.     *)
(***************************************************************************)
Init ==
    /\ aktivitas = <<>>
    /\ tugas = <<>>
    /\ metrik_prokrastinasi = <<>>
    /\ hasil = [op |-> "init"]
    /\ berkas = TidakAda

\* tambah_aktivitas(a)
TambahAktivitas(a) ==
    /\ Len(aktivitas) < MaxAktivitas
    /\ aktivitas' = Append(aktivitas, a)
    /\ hasil' = [op |-> "tambah_aktivitas"]
    /\ UNCHANGED <<tugas, metrik_prokrastinasi, berkas>>

\* tambah_tugas that invalidates the cached snapshot
TambahTugas_Invalidasi(t) ==
    /\ Len(tugas) < MaxTugas
    /\ tugas' = Append(tugas, t)
    /\ hasil' = [op |-> "tambah_tugas"]
    /\ metrik_prokrastinasi' = <<>>
    /\ UNCHANGED <<aktivitas, berkas>>

\* tambah_tugas(t)
TambahTugas(t) ==
    /\ Len(tugas) < MaxTugas
    /\ tugas' = Append(tugas, t)
    /\ hasil' = [op |-> "tambah_tugas"]
    /\ UNCHANGED <<aktivitas, metrik_prokrastinasi, berkas>>

\* a scorer that starts its sum from the raw score of the cached snapshot
MetrikSetelahHitung_Akumulasi ==
    IF tugas = <<>> THEN metrik_prokrastinasi
    ELSE LET baru == HitungIndeks(tugas, aktivitas)
         IN  IF metrik_prokrastinasi = <<>> THEN baru
             ELSE [baru EXCEPT !.skor_mentah = @ + metrik_prokrastinasi.skor_mentah]

\* a scorer that drops the cached snapshot when Tasks is empty
MetrikSetelahHitung_KosongBilaGalat ==
    IF tugas = <<>> THEN <<>> ELSE HitungIndeks(tugas, aktivitas)

\* a scorer that caches its error when Tasks is empty
MetrikSetelahHitung_SimpanGalat ==
    IF tugas = <<>> THEN GalatTugasKosong ELSE HitungIndeks(tugas, aktivitas)

\* the snapshot cached after a call of hitung_indeks_prokrastinasi()
MetrikSetelahHitung ==
    IF tugas = <<>> THEN metrik_prokrastinasi ELSE HitungIndeks(tugas, aktivitas)

\* hitung_indeks_prokrastinasi()
Hitung ==
    /\ metrik_prokrastinasi' = MetrikSetelahHitung
    /\ hasil' = [op |-> "hitung",
                 nilai |-> IF tugas = <<>> THEN GalatTugasKosong
                           ELSE metrik_prokrastinasi']
    /\ UNCHANGED <<aktivitas, tugas, berkas>>

\* analisis_pola_waktu()
Analisis ==
    /\ hasil' = [op |-> "analisis",
                 nilai |-> IF aktivitas = <<>> THEN GalatAktivitasKosong
                           ELSE AnalisisPolaWaktu(aktivitas)]
    /\ UNCHANGED <<aktivitas, tugas, metrik_prokrastinasi, berkas>>

\* simpan_data(), datetime.now() = hari_ini
SimpanData(hari_ini) ==
    /\ berkas' = IsiBerkas(aktivitas, tugas, metrik_prokrastinasi, hari_ini)
    /\ hasil' = [op |-> "simpan"]
    /\ UNCHANGED <<aktivitas, tugas, metrik_prokrastinasi>>

\* muat_data(): no file, a file without its 'mahasiswa' member (KeyError,
\* caught by the outer handler before anything is assigned), or a load;
\* hasil.nilai is what it prints: the message, the error lines of the
\* records that were not loaded, and the two numbers of loaded entries
MuatData ==
    /\ IF berkas = TidakAda
       THEN /\ hasil' = [op |-> "muat", nilai |-> [pesan |-> "tidak ditemukan"]]
            /\ UNCHANGED <<aktivitas, tugas, metrik_prokrastinasi>>
       ELSE IF "mahasiswa" \notin DOMAIN berkas
       THEN /\ hasil' = [op |-> "muat", nilai |-> [pesan |-> "Error memuat data"]]
            /\ UNCHANGED <<aktivitas, tugas, metrik_prokrastinasi>>
       ELSE /\ aktivitas' = AktivitasDimuat(berkas)
            /\ tugas' = TugasDimuat(berkas)
            /\ metrik_prokrastinasi' = MetrikDimuat(berkas)
            /\ hasil' = [op |-> "muat",
                         nilai |-> [pesan |-> "Data berhasil dimuat",
                                    galat |->
                                        GalatMuat(Ambil(berkas, "aktivitas", <<>>),
                                                  KolomAktivitas, BawaanAktivitas,
                                                  "Error loading aktivitas")
                                        \o GalatMuat(Ambil(berkas, "tugas", <<>>),
                                                     KolomTugas, BawaanTugas,
                                                     "Error loading tugas"),
                                    aktivitas |-> Len(aktivitas'),
                                    tugas |-> Len(tugas')]]
    /\ UNCHANGED berkas

\* menu 2: the status and the difficulty are validated, the completion date
\* and the actual hours (a one-element tuple, None being <<>>) are asked for
\* only when the status is "selesai", the date text is taken as typed
TambahTugasMenu(status, tingkat_kesulitan, tanggal_selesai, waktu_aktual) ==
    /\ \/ Len(tugas) < MaxTugas
       \/ Len(tugas) >= JumlahTugasDummy /\ Len(tugas) < JumlahTugasDummy + MaxTugas
    /\ IF \/ status \notin {"belum", "dikerjakan", "selesai", "terlambat"}
          \/ tingkat_kesulitan < 1
          \/ tingkat_kesulitan > 10
       THEN /\ hasil' = [op |-> "tambah_tugas_ditolak"]
            /\ UNCHANGED tugas
       ELSE /\ tugas' = Append(tugas,
                    [id_tugas |-> Len(tugas) + 1, mata_kuliah |-> "mk",
                     deskripsi |-> "t", deadline |-> <<2024, 2, 1>>,
                     tanggal_diberikan |-> <<2024, 1, 1>>, status |-> status,
                     tanggal_selesai |->
                        IF status = "selesai" THEN tanggal_selesai ELSE None,
                     tingkat_kesulitan |-> tingkat_kesulitan,
                     estimasi_waktu |-> 50,
                     waktu_aktual |->
                        IF status = "selesai" THEN <<waktu_aktual>> ELSE None])
            /\ hasil' = [op |-> "tambah_tugas"]
    /\ UNCHANGED <<aktivitas, metrik_prokrastinasi, berkas>>

\* generate_data_dummy(): both lists are replaced, the snapshot is kept;
\* datetime.now() = hari_ini, the draws of np.random follow from pola
GenerateDataDummy(hari_ini, pola) ==
    /\ aktivitas' = AktivitasDummy(hari_ini, pola)
    /\ tugas' = TugasDummy(hari_ini, pola)
    /\ hasil' = [op |-> "dummy", nilai |-> [aktivitas |-> Len(aktivitas'),
                                            tugas |-> Len(tugas')]]
    /\ UNCHANGED <<metrik_prokrastinasi, berkas>>

\* a predictor that always recomputes the snapshot first
PerluHitung_Selalu == TRUE

\* a predictor that never calls the scorer
PerluHitung_TidakPernah == FALSE

\* does prediksi_risiko_tugas call the scorer first (not self.metrik_prokrastinasi)
PerluHitung == metrik_prokrastinasi = <<>>

\* a predictor that marks every pending stored task as late
Prediksi_MenandaiTerlambat(deadline, tingkat_kesulitan, hari_ini) ==
    /\ metrik_prokrastinasi' =
           IF PerluHitung THEN MetrikSetelahHitung ELSE metrik_prokrastinasi
    /\ IF ~TanggalSah(deadline)
       THEN hasil' = [op |-> "prediksi", deadline |-> deadline,
                      tingkat_kesulitan |-> tingkat_kesulitan,
                      hari_ini |-> hari_ini, memanggil_hitung |-> PerluHitung,
                      nilai |-> GalatFormatDeadline]
       ELSE LET hari_tersisa == HariTersisa(deadline, hari_ini)
                faktor_skor == FaktorSkor(metrik_prokrastinasi')
                risiko_dasar == RisikoDasar(faktor_skor, tingkat_kesulitan)
                risiko == RisikoPenyesuaian(risiko_dasar, hari_tersisa)
            IN  \E skor_risiko \in SkorRisikoMungkin(risiko) :
                  hasil' = [op |-> "prediksi", deadline |-> deadline,
                            tingkat_kesulitan |-> tingkat_kesulitan,
                            hari_ini |-> hari_ini,
                            memanggil_hitung |-> PerluHitung,
                            faktor_skor |-> faktor_skor,
                            risiko_dasar |-> risiko_dasar,
                            risiko_penyesuaian |-> risiko,
                            nilai |-> [deadline |-> deadline,
                                       hari_tersisa |-> hari_tersisa,
                                       tingkat_kesulitan |-> tingkat_kesulitan,
                                       skor_risiko |-> skor_risiko,
                                       kategori_risiko |-> KategoriRisiko(risiko),
                                       tindakan_rekomendasi |-> TindakanRekomendasi(risiko),
                                       prediksi_selesai |->
                                           PrediksiTanggalSelesai(hari_tersisa, risiko, hari_ini)]]
    /\ tugas' = [i \in DOMAIN tugas |->
                     IF tugas[i].status = "belum"
                     THEN [tugas[i] EXCEPT !.status = "terlambat"]
                     ELSE tugas[i]]
    /\ UNCHANGED <<aktivitas, berkas>>

\* prediksi_risiko_tugas(deadline, tingkat_kesulitan), datetime.now() = hari_ini
Prediksi(deadline, tingkat_kesulitan, hari_ini) ==
    /\ metrik_prokrastinasi' =
           IF PerluHitung THEN MetrikSetelahHitung ELSE metrik_prokrastinasi
    /\ IF ~TanggalSah(deadline)
       THEN hasil' = [op |-> "prediksi", deadline |-> deadline,
                      tingkat_kesulitan |-> tingkat_kesulitan,
                      hari_ini |-> hari_ini, memanggil_hitung |-> PerluHitung,
                      nilai |-> GalatFormatDeadline]
       ELSE LET hari_tersisa == HariTersisa(deadline, hari_ini)
                faktor_skor == FaktorSkor(metrik_prokrastinasi')
                risiko_dasar == RisikoDasar(faktor_skor, tingkat_kesulitan)
                risiko == RisikoPenyesuaian(risiko_dasar, hari_tersisa)
            IN  \E skor_risiko \in SkorRisikoMungkin(risiko) :
                  hasil' = [op |-> "prediksi", deadline |-> deadline,
                            tingkat_kesulitan |-> tingkat_kesulitan,
                            hari_ini |-> hari_ini,
                            memanggil_hitung |-> PerluHitung,
                            faktor_skor |-> faktor_skor,
                            risiko_dasar |-> risiko_dasar,
                            risiko_penyesuaian |-> risiko,
                            nilai |-> [deadline |-> deadline,
                                       hari_tersisa |-> hari_tersisa,
                                       tingkat_kesulitan |-> tingkat_kesulitan,
                                       skor_risiko |-> skor_risiko,
                                       kategori_risiko |-> KategoriRisiko(risiko),
                                       tindakan_rekomendasi |-> TindakanRekomendasi(risiko),
                                       prediksi_selesai |->
                                           PrediksiTanggalSelesai(hari_tersisa, risiko, hari_ini)]]
    /\ UNCHANGED <<aktivitas, tugas, berkas>>

TambahAktivitasApaSaja == \E a \in AktivitasMasukan : TambahAktivitas(a)

TambahTugasApaSaja == \E t \in TugasMasukan : TambahTugas(t)

PrediksiApaSaja ==
    \E deadline \in DeadlineSesi, tingkat_kesulitan \in KesulitanSesi,
       hari_ini \in SekarangSesi :
        Prediksi(deadline, tingkat_kesulitan, hari_ini)

Next ==
    \/ TambahAktivitasApaSaja
    \/ TambahTugasApaSaja
    \/ Analisis
    \/ Hitung
    \/ PrediksiApaSaja

Spec == Init /\ [][Next]_vars

(***************************************************************************)
(* The scorer as a function of its inputs: the store holds any Tasks and   *)
(* Activities lists (up to the order of the records, which the scorer      *)
(* does not read) and the scorer is applied to it.                         *)
(***************************************************************************)
DaftarTugasSkor ==
    {Ulang(TugasTerlambat, n[1]) \o Ulang(TugasSelesaiLama, n[2])
        \o Ulang(TugasSelesaiCepat, n[3]) \o Ulang(TugasBelum, n[4]) :
     n \in {m \in (0..MaxTugasSkor) \X (0..MaxTugasSkor) \X (0..MaxTugasSkor)
                  \X (0..MaxTugasSkor) : m[1] + m[2] + m[3] + m[4] <= MaxTugasSkor}}

DaftarAktivitasSkor ==
    {Ulang(AktivitasHiburan, n[1]) \o Ulang(AktivitasBelajar, n[2])
        \o Ulang(AktivitasTugas, n[3]) :
     n \in {m \in (0..MaxAktivitasSkor) \X (0..MaxAktivitasSkor) \X (0..MaxAktivitasSkor) :
                m[1] + m[2] + m[3] <= MaxAktivitasSkor}}

InitSkor ==
    /\ aktivitas \in DaftarAktivitasSkor
    /\ tugas \in DaftarTugasSkor
    /\ metrik_prokrastinasi = <<>>
    /\ hasil = [op |-> "init"]
    /\ berkas = TidakAda

NextSkor == Hitung

SpecSkor == InitSkor /\ [][NextSkor]_vars

(***************************************************************************)
(* The scorer as a function of the Tasks list: any list of the five tasks  *)
(* (up to order), with no activities or with activities of every kind.     *)
(***************************************************************************)
DaftarTugasSkorTugas ==
    {Ulang(TugasTerlambat, n[1]) \o Ulang(TugasSelesaiLama, n[2])
        \o Ulang(TugasSelesaiCepat, n[3]) \o Ulang(TugasBelum, n[4])
        \o Ulang(TugasTerlambatSelesai, n[5]) :
     n \in {m \in (0..MaxTugasSkor) \X (0..MaxTugasSkor) \X (0..MaxTugasSkor)
                  \X (0..MaxTugasSkor) \X (0..MaxTugasSkor) :
                m[1] + m[2] + m[3] + m[4] + m[5] <= MaxTugasSkor}}

DaftarAktivitasSkorTugas ==
    {<<>>, Ulang(AktivitasHiburan, 2) \o <<AktivitasBelajar, AktivitasTugas>>}

InitSkorTugas ==
    /\ aktivitas \in DaftarAktivitasSkorTugas
    /\ tugas \in DaftarTugasSkorTugas
    /\ metrik_prokrastinasi = <<>>
    /\ hasil = [op |-> "init"]
    /\ berkas = TidakAda

NextSkorTugas == Hitung

SpecSkorTugas == InitSkorTugas /\ [][NextSkorTugas]_vars

(***************************************************************************)
(* The scorer as a function of the Activities list: any list of the four   *)
(* activities (up to order), three dates among them, with Tasks that do or *)
(* do not give factors 1 and 2 a score.                                    *)
(***************************************************************************)
DaftarAktivitasSkorAktivitas ==
    {Ulang(AktivitasHiburan, n[1]) \o Ulang(AktivitasBelajar, n[2])
        \o Ulang(AktivitasTugas, n[3]) \o Ulang(AktivitasNol, n[4]) :
     n \in {m \in (0..MaxAktivitasSkor) \X (0..MaxAktivitasSkor)
                  \X (0..MaxAktivitasSkor) \X (0..MaxAktivitasSkor) :
                m[1] + m[2] + m[3] + m[4] <= MaxAktivitasSkor}}

DaftarTugasSkorAktivitas ==
    {<<TugasBelum>>, <<TugasTerlambat, TugasSelesaiLama>>}

InitSkorAktivitas ==
    /\ aktivitas \in DaftarAktivitasSkorAktivitas
    /\ tugas \in DaftarTugasSkorAktivitas
    /\ metrik_prokrastinasi = <<>>
    /\ hasil = [op |-> "init"]
    /\ berkas = TidakAda

NextSkorAktivitas == Hitung

SpecSkorAktivitas == InitSkorAktivitas /\ [][NextSkorAktivitas]_vars

(***************************************************************************)
(* The predictor as a function of its inputs: the store holds one of a     *)
(* family of Tasks and Activities lists whose scores range from 0 to 11,   *)
(* the snapshot is absent or the one the scorer cached for that store, and *)
(* the predictor is applied to every deadline, difficulty and time.        *)
(***************************************************************************)
DaftarTugasPrediksi ==
    {<<>>, <<TugasBelum>>, <<TugasTerlambat>>, <<TugasTerlambat, TugasSelesaiLama>>}

DaftarAktivitasPrediksi ==
    {<<>>,
     Ulang(AktivitasHiburan, 2) \o <<AktivitasBelajar, AktivitasTugas>>,
     Ulang(AktivitasHiburan, 6) \o <<AktivitasTugas>>}

\* the snapshot of a store whose scorer ran once after construction
MetrikSetelahHitungAwal(tgs, akt) ==
    IF tgs = <<>> THEN <<>> ELSE HitungIndeks(tgs, akt)

InitPrediksi ==
    /\ aktivitas \in DaftarAktivitasPrediksi
    /\ tugas \in DaftarTugasPrediksi
    /\ metrik_prokrastinasi \in {<<>>, MetrikSetelahHitungAwal(tugas, aktivitas)}
    /\ hasil = [op |-> "init"]
    /\ berkas = TidakAda

NextPrediksi ==
    \E deadline \in DeadlineMasukan, tingkat_kesulitan \in KesulitanMasukan,
       hari_ini \in SekarangMasukan :
        Prediksi(deadline, tingkat_kesulitan, hari_ini)

SpecPrediksi == InitPrediksi /\ [][NextPrediksi]_vars

(***************************************************************************)
(* A session that starts from a store loaded by muat_data: the file's      *)
(* records that do not build a dataclass are skipped, so either list may   *)
(* be empty next to a snapshot that the file carries.                      *)
(***************************************************************************)
DaftarTugasMuat == {<<>>, <<TugasTerlambat>>}

DaftarAktivitasMuat == {<<>>, <<AktivitasHiburan>>}

\* data.get('metrik_prokrastinasi', {}): none, or one the scorer had cached
MetrikMuat == {<<>>, HitungIndeks(<<TugasTerlambat, TugasSelesaiLama>>, <<>>)}

InitMuat ==
    /\ aktivitas \in DaftarAktivitasMuat
    /\ tugas \in DaftarTugasMuat
    /\ metrik_prokrastinasi \in MetrikMuat
    /\ hasil = [op |-> "init"]
    /\ berkas = TidakAda

NextMuat ==
    \/ TambahAktivitasApaSaja
    \/ TambahTugasApaSaja
    \/ Analisis
    \/ Hitung

SpecMuat == InitMuat /\ [][NextMuat]_vars

(***************************************************************************)
(* The analyzer as a function of the Activities list: any list (up to      *)
(* order) of one-hour activities of the five categories and of activities  *)
(* of no duration, and every pair of activities that start at any hour of  *)
(* the day or carry a start time that is no time of day.                   *)
(***************************************************************************)
\* a one-hour activity of a category
AktivitasSejam(jenis) == Aktivitas(jenis, 10, <<2024, 1, 10>>, <<8, 0>>, 5)

DaftarAktivitasJenis ==
    {Ulang(AktivitasSejam("belajar"), n[1]) \o Ulang(AktivitasSejam("tugas"), n[2])
        \o Ulang(AktivitasSejam("istirahat"), n[3])
        \o Ulang(AktivitasSejam("hiburan"), n[4])
        \o Ulang(AktivitasSejam("lainnya"), n[5]) \o Ulang(AktivitasNol, n[6]) :
     n \in {m \in (0..MaxAktivitasAnalisis) \X (0..MaxAktivitasAnalisis)
                  \X (0..MaxAktivitasAnalisis) \X (0..MaxAktivitasAnalisis)
                  \X (0..MaxAktivitasAnalisis) \X (0..MaxAktivitasAnalisis) :
                m[1] + m[2] + m[3] + m[4] + m[5] + m[6] <= MaxAktivitasAnalisis}}

\* the start times: every hour of the day on the hour, the last minute of
\* two hours, and the texts "24:00" and "08:60"
WaktuMulaiMasukan ==
    {<<jam, 0>> : jam \in 0..24} \cup {<<11, 59>>, <<21, 59>>, <<8, 60>>}

\* an activity that starts at a given time; its productivity tells the
\* hours apart
AktivitasPadaWaktu(waktu_mulai) ==
    Aktivitas("belajar", 10, <<2024, 1, 10>>, waktu_mulai, (waktu_mulai[1] % 10) + 1)

DaftarAktivitasWaktu ==
    {<<AktivitasPadaWaktu(w1), AktivitasPadaWaktu(w2)>> :
        w1 \in WaktuMulaiMasukan, w2 \in WaktuMulaiMasukan}

InitAnalisis ==
    /\ aktivitas \in DaftarAktivitasJenis \cup DaftarAktivitasWaktu
    /\ tugas = <<>>
    /\ metrik_prokrastinasi = <<>>
    /\ hasil = [op |-> "init"]
    /\ berkas = TidakAda

NextAnalisis == Analisis

SpecAnalisis == InitAnalisis /\ [][NextAnalisis]_vars

(***************************************************************************)
(* The session with its file: menu 8 (simpan_data) and menu 9 or the       *)
(* startup question (muat_data), from a start where the file is absent or  *)
(* was written by something else.                                          *)
(***************************************************************************)
\* a record of the file that lacks a field without default
RekamanTanpaDurasi ==
    [f \in KolomAktivitas \ {"durasi"} |-> AsDict(AktivitasHiburan)[f]]

\* a record of the file with a member that is no field
RekamanKunciAsing == AsDict(TugasTerlambat) @@ [catatan |-> "x"]

\* a record of the file that has only the fields without default
RekamanTanpaOpsional ==
    [f \in KolomTugas \ DOMAIN BawaanTugas |-> TugasBelum[f]]

MetrikBerkas == HitungIndeks(<<TugasTerlambat, TugasSelesaiLama>>, <<>>)

BerkasAsing ==
    {[mahasiswa |-> [nama |-> "nama", nim |-> "nim"],
      aktivitas |-> <<AsDict(AktivitasBelajar), RekamanTanpaDurasi,
                      AsDict(AktivitasTugas), AsDict(AktivitasHiburan)>>,
      tugas |-> <<RekamanKunciAsing, AsDict(TugasTerlambat),
                  RekamanTanpaOpsional, AsDict(TugasSelesaiLama)>>,
      metrik_prokrastinasi |-> MetrikBerkas,
      tanggal_update |-> <<<<2024, 1, 10>>, 9>>],
     [mahasiswa |-> [nama |-> "nama", nim |-> "nim"],
      aktivitas |-> <<RekamanTanpaDurasi>>],
     [aktivitas |-> <<AsDict(AktivitasBelajar)>>,
      tugas |-> <<AsDict(TugasTerlambat)>>]}

InitBerkas ==
    /\ aktivitas = <<>>
    /\ tugas = <<>>
    /\ metrik_prokrastinasi = <<>>
    /\ hasil = [op |-> "init"]
    /\ berkas \in {TidakAda} \cup BerkasAsing

TambahAktivitasBerkas == TambahAktivitas(AktivitasHiburan)

TambahTugasBerkas == \E t \in {TugasSelesaiLama, TugasBelum} : TambahTugas(t)

SimpanDataApaSaja == \E hari_ini \in SekarangSesi : SimpanData(hari_ini)

NextBerkas ==
    \/ TambahAktivitasBerkas
    \/ TambahTugasBerkas
    \/ Hitung
    \/ SimpanDataApaSaja
    \/ MuatData

SpecBerkas == InitBerkas /\ [][NextBerkas]_vars

(***************************************************************************)
(* The session that fills the store: menu 2 and menu 10 (dummy data).      *)
(***************************************************************************)
\* what can be typed at the status prompt, one text being no status
StatusMenu == {"belum", "dikerjakan", "selesai", "terlambat", "batal"}

KesulitanMenu == {0, 5, 11}

\* what can be typed at the completion-date prompt: a date or just Enter
TanggalSelesaiMenu == {<<2024, 1, 20>>, TeksKosong}

InitIsi ==
    /\ aktivitas = <<>>
    /\ tugas = <<>>
    /\ metrik_prokrastinasi = <<>>
    /\ hasil = [op |-> "init"]
    /\ berkas = TidakAda

TambahTugasMenuApaSaja ==
    \E status \in StatusMenu, tingkat_kesulitan \in KesulitanMenu,
       tanggal_selesai \in TanggalSelesaiMenu :
        TambahTugasMenu(status, tingkat_kesulitan, tanggal_selesai, 20)

GenerateDataDummyApaSaja ==
    \E hari_ini \in SekarangSesi, pola \in PolaDummy :
        GenerateDataDummy(hari_ini, pola)

NextIsi ==
    \/ TambahTugasMenuApaSaja
    \/ GenerateDataDummyApaSaja

SpecIsi == InitIsi /\ [][NextIsi]_vars

(***************************************************************************)
(* Properties.                                                             *)
(***************************************************************************)
Abs(x) == IF x < 0 THEN -x ELSE x

\* the last call was a scorer call that succeeded (Tasks was not empty)
HitungBerhasil == hasil.op = "hitung" /\ tugas # <<>>

\* the last call was a predictor call that returned a prediction
PrediksiBerhasil == hasil.op = "prediksi" /\ "hari_tersisa" \in DOMAIN hasil.nilai

\* the number of late tasks of the store
JumlahTerlambat == Cardinality({i \in 1..Len(tugas) : tugas[i].status = "terlambat"})

\* the tier the specification gives to a normalized score in hundredths
TingkatMenurutSpesifikasi(skor) ==
    CASE skor >= 800 -> "TINGGI"
      [] skor >= 600 /\ skor < 800 -> "SEDANG-TINGGI"
      [] skor >= 400 /\ skor < 600 -> "SEDANG"
      [] skor >= 200 /\ skor < 400 -> "RENDAH-SEDANG"
      [] skor < 200 -> "RENDAH"

\* C1: after every successful scorer call the stored raw score is an integer
\* in 0..11, the stored maximum is 11, and the stored normalized score lies
\* in [0, 10] and is min(10, raw / 11 * 10) rounded to two decimals.
C1_SkorDalamRentang ==
    HitungBerhasil =>
        LET m == metrik_prokrastinasi
        IN  /\ m = hasil.nilai
            /\ m.skor_mentah \in 0..11
            /\ m.maksimum_skor = 11
            /\ m.skor_total \in 0..1000
            /\ 2 * Abs(11 * m.skor_total - Min(11000, 1000 * m.skor_mentah)) <= 11

\* C1 witness: a scorer call in which all four factors score their maximum
C1_Saksi ==
    /\ HitungBerhasil
    /\ metrik_prokrastinasi.skor_mentah = 11
    /\ metrik_prokrastinasi.skor_total = 1000

\* C2: the scorer's tier mapping gives every normalized score of [0, 10]
\* (every hundredth) the one tier of the inclusive lower bounds 8, 6, 4, 2, and
\* the tier of every stored snapshot is the tier of its stored normalized score.
C2_TingkatSesuaiSkor ==
    /\ (tugas = <<>> /\ aktivitas = <<>> /\ hasil.op = "init") =>
           \A skor \in 0..1000 :
               Tingkat(skor * maksimum_skor) = TingkatMenurutSpesifikasi(skor)
    /\ HitungBerhasil =>
           metrik_prokrastinasi.tingkat =
               TingkatMenurutSpesifikasi(metrik_prokrastinasi.skor_total)

\* C2 witness: a stored snapshot of the highest tier
C2_Saksi ==
    /\ HitungBerhasil
    /\ metrik_prokrastinasi.tingkat = "TINGGI"
    /\ metrik_prokrastinasi.skor_total >= 800

\* the store of the example: two late tasks, one task done that was given on
\* 2024-01-01 and completed on 2024-01-20, no activities; the scorer ran
C3_Contoh ==
    /\ HitungBerhasil
    /\ tugas = <<TugasTerlambat, TugasTerlambat, TugasSelesaiLama>>
    /\ aktivitas = <<>>

\* C3 as stated: the example yields factor1 = 3, factor2 = 3, raw score 6,
\* normalized score 5.45 and tier SEDANG-TINGGI (MED_HIGH).
C3_ContohTingkatSedangTinggi ==
    C3_Contoh =>
        LET m == metrik_prokrastinasi
        IN  /\ m.faktor_penilaian.keterlambatan.skor = 3
            /\ m.faktor_penilaian.waktu_pengerjaan.skor = 3
            /\ m.skor_mentah = 6
            /\ m.skor_total = 545
            /\ m.tingkat = "SEDANG-TINGGI"

\* C3 amended: the example yields factor1 = 3, factor2 = 3 (lag 19 days), raw
\* score 6, normalized score 5.45 and tier SEDANG (MED), with only the two
\* task factors assessed.
C3_ContohTingkatSedang ==
    C3_Contoh =>
        LET m == metrik_prokrastinasi
        IN  /\ m.faktor_penilaian.keterlambatan.skor = 3
            /\ m.faktor_penilaian.keterlambatan.persentase_terlambat = 6667
            /\ m.faktor_penilaian.waktu_pengerjaan.skor = 3
            /\ m.faktor_penilaian.waktu_pengerjaan.rata_rata_hari = 1900
            /\ DOMAIN m.faktor_penilaian = {"keterlambatan", "waktu_pengerjaan"}
            /\ m.skor_mentah = 6
            /\ m.skor_total = 545
            /\ m.tingkat = "SEDANG"

\* C3 witness: the scorer ran on the store of the example
C3_Saksi == C3_Contoh /\ metrik_prokrastinasi.skor_mentah = 6

\* C4: a step that adds an activity or a task leaves the cached snapshot
\* exactly as it was.
C4_TambahTidakMengubahMetrik ==
    [][hasil'.op \in {"tambah_aktivitas", "tambah_tugas"} =>
           metrik_prokrastinasi' = metrik_prokrastinasi]_vars

\* C4 witness: a record was added after the scorer ran, and the cached
\* snapshot is not the one the scorer would compute now (it is stale)
C4_Saksi ==
    /\ hasil.op \in {"tambah_aktivitas", "tambah_tugas"}
    /\ metrik_prokrastinasi # <<>>
    /\ metrik_prokrastinasi # HitungIndeks(tugas, aktivitas)

\* C5: a predictor call runs the scorer first exactly when no snapshot is
\* cached: with a cached snapshot it leaves the snapshot as it is and uses its
\* normalized score; with none cached (and Tasks not empty) the snapshot
\* becomes the scorer's result.  A successful scorer call replaces whatever
\* snapshot was cached by its result.
C5_HitungHanyaBilaKosong ==
    [][/\ hasil'.op = "prediksi" =>
            /\ hasil'.memanggil_hitung = (metrik_prokrastinasi = <<>>)
            /\ metrik_prokrastinasi # <<>> =>
                   /\ metrik_prokrastinasi' = metrik_prokrastinasi
                   /\ "faktor_skor" \in DOMAIN hasil' =>
                          hasil'.faktor_skor = metrik_prokrastinasi.skor_total
            /\ (metrik_prokrastinasi = <<>> /\ tugas # <<>>) =>
                   metrik_prokrastinasi' = HitungIndeks(tugas, aktivitas)
       /\ (hasil'.op = "hitung" /\ tugas # <<>>) =>
            /\ metrik_prokrastinasi' = HitungIndeks(tugas, aktivitas)
            /\ hasil'.nilai = metrik_prokrastinasi'
      ]_vars

\* C5 witness: a prediction made from a cached snapshot that is stale
C5_Saksi ==
    /\ PrediksiBerhasil
    /\ ~hasil.memanggil_hitung
    /\ metrik_prokrastinasi # <<>>
    /\ metrik_prokrastinasi # HitungIndeks(tugas, aktivitas)
    /\ hasil.faktor_skor = metrik_prokrastinasi.skor_total

\* C6 as stated: days_remaining is max(0, deadline - today) in whole calendar
\* days, whatever the time of day of the call.
C6_HariKalender ==
    PrediksiBerhasil =>
        hasil.nilai.hari_tersisa =
            Max(0, Ordinal(hasil.deadline) - Ordinal(hasil.hari_ini[1]))

\* C7: the days_remaining of every prediction is never negative.
C7_HariTersisaTidakNegatif ==
    PrediksiBerhasil => hasil.nilai.hari_tersisa >= 0

\* C7 witness: a prediction for a deadline in the past
C7_Saksi ==
    /\ PrediksiBerhasil
    /\ Ordinal(hasil.deadline) < Ordinal(hasil.hari_ini[1])
    /\ hasil.nilai.hari_tersisa = 0

\* a prediction from a cached normalized score of 5.45 for a deadline two
\* calendar days after today and difficulty 8
C8_Contoh ==
    /\ PrediksiBerhasil
    /\ ~hasil.memanggil_hitung
    /\ metrik_prokrastinasi.skor_total = 545
    /\ Ordinal(hasil.deadline) = Ordinal(hasil.hari_ini[1]) + 2
    /\ hasil.tingkat_kesulitan = 8

\* C8: in that example the base risk is 0.647, the adjusted risk is
\* min(1, 0.647 * 1.5) = 0.9705 (0.97 to two decimals), the category is
\* SANGAT TINGGI and the predicted completion date is today + 1 day.
C8_ContohPrediksi ==
    C8_Contoh =>
        /\ hasil.risiko_dasar * 1000 = 647 * SatuanRisiko
        /\ hasil.risiko_penyesuaian * 10000 = 9705 * SatuanRisiko
        /\ Bulat(hasil.risiko_penyesuaian * 100, SatuanRisiko) = 97
        /\ hasil.nilai.kategori_risiko = "SANGAT TINGGI"
        /\ TanggalSah(hasil.nilai.prediksi_selesai)
        /\ Ordinal(hasil.nilai.prediksi_selesai) = Ordinal(hasil.hari_ini[1]) + 1

\* C8 witness: the example, called in the afternoon
C8_Saksi == C8_Contoh /\ hasil.hari_ini[2] = 13

\* C9: a scorer call that directly follows a scorer call (nothing was added
\* in between) returns the same snapshot and leaves the cache as it was.
C9_HitungIdempoten ==
    [][(hasil.op = "hitung" /\ hasil'.op = "hitung") =>
           /\ hasil'.nilai = hasil.nilai
           /\ metrik_prokrastinasi' = metrik_prokrastinasi]_vars

\* C9 witness: the scorer ran on a store with tasks and activities, from a
\* cache that held the snapshot it returns
C9_Saksi ==
    /\ HitungBerhasil
    /\ aktivitas # <<>>
    /\ hasil.nilai = metrik_prokrastinasi
    /\ metrik_prokrastinasi.skor_mentah > 0

\* the score the specification gives to k late tasks out of n
SkorTerlambatMenurutSpesifikasi(k, n) ==
    CASE k * 100 > 30 * n -> 3
      [] k * 100 > 15 * n /\ k * 100 <= 30 * n -> 2
      [] k > 0 /\ k * 100 <= 15 * n -> 1
      [] k = 0 -> 0

\* C10: factor 1 of every snapshot is 3, 2, 1 or 0 as the share of late tasks
\* is above 30%, above 15%, above 0 or 0; and the factor never decreases when
\* that share grows.
C10_SkorKeterlambatan ==
    /\ HitungBerhasil =>
           LET f == metrik_prokrastinasi.faktor_penilaian.keterlambatan
           IN  /\ f.skor = SkorTerlambatMenurutSpesifikasi(JumlahTerlambat, Len(tugas))
               /\ f.jumlah_tugas_terlambat = JumlahTerlambat
               /\ f.total_tugas = Len(tugas)
    /\ (tugas = <<>> /\ aktivitas = <<>> /\ hasil.op = "init") =>
           \A n1, n2 \in 1..MaxTugasSkor :
               \A k1 \in 0..n1, k2 \in 0..n2 :
                   k1 * n2 <= k2 * n1 =>
                       SkorKeterlambatan(k1, n1) <= SkorKeterlambatan(k2, n2)

\* C10 witness: a snapshot whose share of late tasks is in (0, 15] percent
C10_Saksi ==
    /\ HitungBerhasil
    /\ JumlahTerlambat > 0
    /\ JumlahTerlambat * 100 <= 15 * Len(tugas)
    /\ metrik_prokrastinasi.faktor_penilaian.keterlambatan.skor = 1

\* the positions of the stored tasks that carry a completion date
PosisiBertanggalSelesai == {i \in DOMAIN tugas : tugas[i].tanggal_selesai # None}

\* the days between date given and date completed, summed over those tasks
JumlahHariPengerjaan ==
    JumlahFungsi([i \in PosisiBertanggalSelesai |->
                     Ordinal(tugas[i].tanggal_selesai)
                         - Ordinal(tugas[i].tanggal_diberikan)],
                 PosisiBertanggalSelesai)

\* the score of a mean lag of jumlah_hari / n days: above 14, above 7, above 3
SkorLagMenurutSpesifikasi(jumlah_hari, n) ==
    CASE jumlah_hari > 14 * n -> 3
      [] jumlah_hari <= 14 * n /\ jumlah_hari > 7 * n -> 2
      [] jumlah_hari <= 7 * n /\ jumlah_hari > 3 * n -> 1
      [] jumlah_hari <= 3 * n -> 0

\* the sum of the scores of the factors of a breakdown other than one
JumlahSkorSelain(faktor_penilaian, nama) ==
    JumlahFungsi([f \in DOMAIN faktor_penilaian \ {nama} |-> faktor_penilaian[f].skor],
                 DOMAIN faktor_penilaian \ {nama})

\* C11: factor 2 appears in the breakdown exactly when at least one stored
\* task carries a completion date; it is computed from exactly the tasks that
\* carry one, whatever their status; its score is 3, 2, 1 or 0 as their mean
\* lag in days is above 14, above 7, above 3 or not; and the raw score is the
\* sum of the other factors plus this score, or of the others alone when the
\* factor is absent.
C11_FaktorWaktuPengerjaan ==
    HitungBerhasil =>
        LET m == metrik_prokrastinasi
            fp == m.faktor_penilaian
            n == Cardinality(PosisiBertanggalSelesai)
        IN  /\ ("waktu_pengerjaan" \in DOMAIN fp) <=> (n > 0)
            /\ n > 0 =>
                   /\ fp.waktu_pengerjaan.jumlah_tugas_selesai = n
                   /\ fp.waktu_pengerjaan.skor =
                          SkorLagMenurutSpesifikasi(JumlahHariPengerjaan, n)
                   /\ 2 * Abs(n * fp.waktu_pengerjaan.rata_rata_hari
                                  - 100 * JumlahHariPengerjaan) <= n
                   /\ m.skor_mentah = JumlahSkorSelain(fp, "waktu_pengerjaan")
                                         + fp.waktu_pengerjaan.skor
            /\ n = 0 => m.skor_mentah = JumlahSkorSelain(fp, "waktu_pengerjaan")

\* C11 witness: the only tasks that carry a completion date are marked late,
\* other late tasks carry none, and factor 2 is scored from the former alone
C11_Saksi ==
    /\ HitungBerhasil
    /\ tugas = <<TugasTerlambat, TugasBelum, TugasTerlambatSelesai>>
    /\ metrik_prokrastinasi.faktor_penilaian.waktu_pengerjaan.jumlah_tugas_selesai = 1
    /\ metrik_prokrastinasi.faktor_penilaian.waktu_pengerjaan.rata_rata_hari = 200
    /\ metrik_prokrastinasi.faktor_penilaian.waktu_pengerjaan.skor = 0

\* the total duration of the stored activities whose category is in jenis
\* (tenths of an hour)
DurasiJenis(jenis) ==
    LET posisi == {i \in DOMAIN aktivitas : aktivitas[i].jenis \in jenis}
    IN  JumlahFungsi([i \in posisi |-> aktivitas[i].durasi], posisi)

SemuaJenis == {aktivitas[i].jenis : i \in DOMAIN aktivitas}

\* the score of an entertainment share hiburan / total: above 40%, 25%, 15%
SkorRasioMenurutSpesifikasi(hiburan, total) ==
    CASE 100 * hiburan > 40 * total -> 3
      [] 100 * hiburan <= 40 * total /\ 100 * hiburan > 25 * total -> 2
      [] 100 * hiburan <= 25 * total /\ 100 * hiburan > 15 * total -> 1
      [] 100 * hiburan <= 15 * total -> 0

\* C12: factor 3 appears in the breakdown exactly when Activities is not
\* empty and its total duration is above 0; its score is 3, 2, 1 or 0 as the
\* entertainment share of the total duration is above 40%, above 25%, above
\* 15% or not; the breakdown records the productive hours as study hours plus
\* assignment hours and their percentage of the total; and the raw score is the
\* sum of the other factors plus this score, or of the others alone when the
\* factor is absent.
C12_FaktorRasioHiburan ==
    HitungBerhasil =>
        LET m == metrik_prokrastinasi
            fp == m.faktor_penilaian
            total == DurasiJenis(SemuaJenis)
            hiburan == DurasiJenis({"hiburan"})
            produktif == DurasiJenis({"belajar"}) + DurasiJenis({"tugas"})
        IN  /\ ("rasio_hiburan" \in DOMAIN fp) <=> (aktivitas # <<>> /\ total > 0)
            /\ "rasio_hiburan" \in DOMAIN fp =>
                   /\ fp.rasio_hiburan.skor = SkorRasioMenurutSpesifikasi(hiburan, total)
                   /\ fp.rasio_hiburan.waktu_produktif = 10 * produktif
                   /\ fp.rasio_hiburan.waktu_hiburan = 10 * hiburan
                   /\ 2 * Abs(total * fp.rasio_hiburan.persentase_produktif
                                  - 10000 * produktif) <= total
                   /\ 2 * Abs(total * fp.rasio_hiburan.persentase_hiburan
                                  - 10000 * hiburan) <= total
                   /\ m.skor_mentah = JumlahSkorSelain(fp, "rasio_hiburan")
                                         + fp.rasio_hiburan.skor
            /\ "rasio_hiburan" \notin DOMAIN fp =>
                   m.skor_mentah = JumlahSkorSelain(fp, "rasio_hiburan")

\* C12 witness: study and assignment hours both count as productive, and the
\* entertainment share is exactly 40%, which scores 2
C12_Saksi ==
    /\ HitungBerhasil
    /\ aktivitas = <<AktivitasHiburan, AktivitasHiburan, AktivitasBelajar,
                     AktivitasTugas, AktivitasTugas>>
    /\ metrik_prokrastinasi.faktor_penilaian.rasio_hiburan.persentase_hiburan = 4000
    /\ metrik_prokrastinasi.faktor_penilaian.rasio_hiburan.waktu_produktif = 600
    /\ metrik_prokrastinasi.faktor_penilaian.rasio_hiburan.skor = 2

\* the distinct dates of the stored activities
TanggalAktivitas == {aktivitas[i].tanggal : i \in DOMAIN aktivitas}

\* the number of stored activities of a date
JumlahPadaTanggal(t) == Cardinality({i \in DOMAIN aktivitas : aktivitas[i].tanggal = t})

\* the sum over all ordered pairs of dates of the squared difference of their
\* activity counts: the sample variance of the counts of n dates is this sum
\* divided by 2 * n * (n - 1)
JumlahSelisihKuadrat ==
    JumlahFungsi([p \in TanggalAktivitas \X TanggalAktivitas |->
                     (JumlahPadaTanggal(p[1]) - JumlahPadaTanggal(p[2]))
                         * (JumlahPadaTanggal(p[1]) - JumlahPadaTanggal(p[2]))],
                 TanggalAktivitas \X TanggalAktivitas)

\* the score of a standard deviation sqrt(selisih / (2 * n * (n - 1))):
\* above 3 (variance above 9), above 1.5 (variance above 9/4)
SkorDeviasiMenurutSpesifikasi(selisih, n) ==
    CASE selisih > 18 * n * (n - 1) -> 2
      [] selisih <= 18 * n * (n - 1) /\ 2 * selisih > 9 * n * (n - 1) -> 1
      [] 2 * selisih <= 9 * n * (n - 1) -> 0

\* C13: factor 4 appears in the breakdown exactly when the stored activities
\* fall on at least 2 distinct dates; its score is 2, 1 or 0 as the (sample)
\* standard deviation of the per-date activity counts is above 3, above 1.5 or
\* not; and the raw score is the sum of the other factors plus this score, or
\* of the others alone when the factor is absent.
C13_FaktorKonsistensi ==
    HitungBerhasil =>
        LET m == metrik_prokrastinasi
            fp == m.faktor_penilaian
            n == Cardinality(TanggalAktivitas)
        IN  /\ ("konsistensi" \in DOMAIN fp) <=> (n >= 2)
            /\ n >= 2 =>
                   /\ fp.konsistensi.jumlah_hari = n
                   /\ fp.konsistensi.skor =
                          SkorDeviasiMenurutSpesifikasi(JumlahSelisihKuadrat, n)
                   /\ m.skor_mentah = JumlahSkorSelain(fp, "konsistensi")
                                         + fp.konsistensi.skor
            /\ n < 2 => m.skor_mentah = JumlahSkorSelain(fp, "konsistensi")

\* C13 witness: six activities on one date and one on another, a standard
\* deviation of 3.54 that scores 2
C13_Saksi ==
    /\ HitungBerhasil
    /\ Cardinality(TanggalAktivitas) = 2
    /\ Len(aktivitas) = 7
    /\ metrik_prokrastinasi.faktor_penilaian.konsistensi.deviasi_aktivitas = 354
    /\ metrik_prokrastinasi.faktor_penilaian.konsistensi.skor = 2

\* the state in which the predictor's arithmetic is checked over all inputs
KeadaanAwalKosong == tugas = <<>> /\ aktivitas = <<>> /\ hasil.op = "init"

\* C14: for every cached normalized score in [0, 10] (every hundredth) and
\* every difficulty in 1..10 the base risk lies in [0, 1], the adjusted risk
\* lies in [0, 1] for every number of days remaining, and the risk score lies
\* in [0, 10]; and so do the values of every prediction made.
C14_RisikoDalamRentang ==
    /\ KeadaanAwalKosong =>
           \A faktor_skor \in 0..1000, tingkat_kesulitan \in 1..10 :
               LET risiko_dasar == RisikoDasar(faktor_skor, tingkat_kesulitan)
               IN  /\ risiko_dasar \in 0..SatuanRisiko
                   /\ \A hari_tersisa \in {0, 3, 7} :
                          LET risiko == RisikoPenyesuaian(risiko_dasar, hari_tersisa)
                          IN  /\ risiko \in 0..SatuanRisiko
                              /\ SkorRisikoMungkin(risiko) \subseteq 0..1000
    /\ PrediksiBerhasil =>
           /\ hasil.faktor_skor \in 0..1000
           /\ hasil.risiko_dasar \in 0..SatuanRisiko
           /\ hasil.risiko_penyesuaian \in 0..SatuanRisiko
           /\ hasil.nilai.skor_risiko \in 0..1000

\* C14 witness: a prediction whose urgency multiplier would carry the risk
\* above 1 and whose adjusted risk is 1 and risk score 10
C14_Saksi ==
    /\ PrediksiBerhasil
    /\ hasil.nilai.hari_tersisa < 3
    /\ 3 * hasil.risiko_dasar > 2 * SatuanRisiko
    /\ hasil.risiko_penyesuaian = SatuanRisiko
    /\ hasil.nilai.skor_risiko = 1000

\* C15: with fewer than 3 days remaining the adjusted risk is
\* min(1, base * 1.5), with 3 to 6 days it is min(1, base * 1.2), with 7 or more
\* it is the base risk (each to within the rounding of the arithmetic, less
\* than one part in 100000); and for a fixed base risk the adjusted risk never
\* increases as the days remaining grow.
C15_PenyesuaianUrgensi ==
    /\ PrediksiBerhasil =>
           LET b == hasil.risiko_dasar
               r == hasil.risiko_penyesuaian
               h == hasil.nilai.hari_tersisa
           IN  /\ h < 3 => Abs(2 * r - Min(2 * SatuanRisiko, 3 * b)) <= 2
               /\ (h >= 3 /\ h < 7) => Abs(5 * r - Min(5 * SatuanRisiko, 6 * b)) <= 5
               /\ h >= 7 => r = b
    /\ KeadaanAwalKosong =>
           \A faktor_skor \in 0..1000, tingkat_kesulitan \in 1..10 :
               LET b == RisikoDasar(faktor_skor, tingkat_kesulitan)
               IN  \A h1, h2 \in 0..8 :
                       h1 <= h2 => RisikoPenyesuaian(b, h1) >= RisikoPenyesuaian(b, h2)

\* C15 witness: a prediction with exactly 3 days remaining, whose risk is the
\* base risk times 1.2 and below 1
C15_Saksi ==
    /\ PrediksiBerhasil
    /\ hasil.nilai.hari_tersisa = 3
    /\ hasil.risiko_dasar > 0
    /\ 5 * hasil.risiko_penyesuaian = 6 * hasil.risiko_dasar
    /\ hasil.risiko_penyesuaian < SatuanRisiko

\* ten times the adjusted risk of the specification, min(1, base * multiplier)
\* in exact arithmetic, for a cached score (hundredths), a difficulty and the
\* days remaining (numerator over SatuanRisiko)
SepuluhRisikoMenurutSpesifikasi(faktor_skor, tingkat_kesulitan, hari_tersisa) ==
    LET b == faktor_skor * 120 + tingkat_kesulitan * 8000
    IN  IF hari_tersisa < 3 THEN Min(10 * SatuanRisiko, 15 * b)
        ELSE IF hari_tersisa < 7 THEN Min(10 * SatuanRisiko, 12 * b)
        ELSE Min(10 * SatuanRisiko, 10 * b)

\* the category of ten times a risk: strict lower bounds 0.7, 0.5 and 0.3
KategoriMenurutSpesifikasi(r10) ==
    CASE r10 > 7 * SatuanRisiko -> "SANGAT TINGGI"
      [] r10 <= 7 * SatuanRisiko /\ r10 > 5 * SatuanRisiko -> "TINGGI"
      [] r10 <= 5 * SatuanRisiko /\ r10 > 3 * SatuanRisiko -> "SEDANG"
      [] r10 <= 3 * SatuanRisiko -> "RENDAH"

\* the fixed action text of a category
TindakanMenurutKategori(kategori) ==
    CASE kategori = "SANGAT TINGGI" -> "Segera mulai kerjakan hari ini! Buat rencana harian."
      [] kategori = "TINGGI" -> "Buat deadline internal lebih awal dari deadline sebenarnya."
      [] kategori = "SEDANG" -> "Breakdown tugas menjadi subtask kecil."
      [] kategori = "RENDAH" -> "Pertahankan konsistensi pengerjaan."

\* C16 as stated: the category of every prediction is the one the strict
\* lower bounds 0.7, 0.5 and 0.3 give to its adjusted risk
\* min(1, base * multiplier), so that a risk of exactly 0.7, 0.5 or 0.3 falls in
\* the lower category, and the action text is the fixed text of the category.
\* Violated by the prediction from a cached score of 0.0 with difficulty 5
\* and fewer than 3 days remaining: the risk is 0.2 * 1.5 = 0.3, the risk score
\* returned is 3.0, and the category returned is SEDANG.
C16_KategoriMenurutAmbang ==
    PrediksiBerhasil =>
        LET r10 == SepuluhRisikoMenurutSpesifikasi(hasil.faktor_skor,
                       hasil.tingkat_kesulitan, hasil.nilai.hari_tersisa)
        IN  /\ hasil.nilai.kategori_risiko = KategoriMenurutSpesifikasi(r10)
            /\ hasil.nilai.tindakan_rekomendasi =
                   TindakanMenurutKategori(hasil.nilai.kategori_risiko)

\* the tenths f * 10 of the fraction of the days remaining after which the
\* completion is predicted, for ten times a risk: 0.2 above 0.7, 0.4 above
\* 0.5, 0.6 above 0.3, 0.8 otherwise
PersepuluhMenurutSpesifikasi(r10) ==
    CASE r10 > 7 * SatuanRisiko -> 2
      [] r10 <= 7 * SatuanRisiko /\ r10 > 5 * SatuanRisiko -> 4
      [] r10 <= 5 * SatuanRisiko /\ r10 > 3 * SatuanRisiko -> 6
      [] r10 <= 3 * SatuanRisiko -> 8

\* risks from 0 to 1 in steps of 0.05, and risks just above the bounds
RisikoContoh == {k * 10000 : k \in 0..20} \cup {60001, 100001, 140001}

C18_PenyimpananTidakBerubah ==
    [][hasil'.op \in {"prediksi", "hitung", "analisis"} =>
           /\ tugas' = tugas
           /\ aktivitas' = aktivitas]_vars

\* C18 witness: a predictor call that ran the scorer first, on a store that
\* holds a pending task and activities
C18_Saksi ==
    /\ hasil.op = "prediksi"
    /\ hasil.memanggil_hitung
    /\ metrik_prokrastinasi # <<>>
    /\ \E i \in DOMAIN tugas : tugas[i].status = "belum"
    /\ aktivitas # <<>>

\* C19: a scorer call on empty Tasks returns the error outcome "no task data"
\* and leaves the cached snapshot as it was, and an analyzer call on empty
\* Activities returns the error outcome "no activity data"; every scorer call
\* on non-empty Tasks and every analyzer call on non-empty Activities,
\* whatever calls came before it, returns a result that is no error.
C19_GalatDataKosong ==
    [][/\ (hasil'.op = "hitung" /\ tugas = <<>>) =>
            /\ hasil'.nilai = [error |-> "Tidak ada data tugas"]
            /\ metrik_prokrastinasi' = metrik_prokrastinasi
       /\ (hasil'.op = "hitung" /\ tugas # <<>>) =>
            /\ "error" \notin DOMAIN hasil'.nilai
            /\ hasil'.nilai = HitungIndeks(tugas, aktivitas)
       /\ (hasil'.op = "analisis" /\ aktivitas = <<>>) =>
            hasil'.nilai = [error |-> "Tidak ada data aktivitas"]
       /\ (hasil'.op = "analisis" /\ aktivitas # <<>>) =>
            /\ "error" \notin DOMAIN hasil'.nilai
            /\ "distribusi_waktu" \in DOMAIN hasil'.nilai
      ]_vars

\* C19 witness: the scorer returned the error on empty Tasks while a snapshot
\* was cached, and the snapshot is still cached
C19_Saksi ==
    /\ hasil.op = "hitung"
    /\ tugas = <<>>
    /\ hasil.nilai = GalatTugasKosong
    /\ metrik_prokrastinasi # <<>>

\* is the text year-month-day a date of the calendar: three fields, a month
\* of 1..12 and a day that the month has (February has 29 days in the years
\* divisible by 4 that are not centuries, and in the years divisible by 400)
TanggalKalender(t) ==
    /\ Len(t) = 3
    /\ t[1] >= 1 /\ t[1] <= 9999
    /\ t[2] >= 1 /\ t[2] <= 12
    /\ t[3] >= 1
    /\ t[3] <= (CASE t[2] \in {4, 6, 9, 11} -> 30
                  [] t[2] = 2 /\ (t[1] % 400 = 0 \/ (t[1] % 4 = 0 /\ t[1] % 100 # 0)) -> 29
                  [] t[2] = 2 /\ ~(t[1] % 400 = 0 \/ (t[1] % 4 = 0 /\ t[1] % 100 # 0)) -> 28
                  [] OTHER -> 31)

\* C20: a predictor call whose deadline text is no calendar date returns the
\* error outcome "invalid deadline format", a result with the error text alone
\* and none of the prediction's fields; a call whose deadline is a calendar
\* date never returns that error but a prediction with all its fields.
C20_GalatFormatDeadline ==
    hasil.op = "prediksi" =>
        IF TanggalKalender(hasil.deadline)
        THEN /\ "error" \notin DOMAIN hasil.nilai
             /\ DOMAIN hasil.nilai =
                    {"deadline", "hari_tersisa", "tingkat_kesulitan", "skor_risiko",
                     "kategori_risiko", "tindakan_rekomendasi", "prediksi_selesai"}
        ELSE /\ DOMAIN hasil.nilai = {"error"}
             /\ hasil.nilai.error =
                    "Format deadline tidak valid. Gunakan format YYYY-MM-DD"

\* C20 witness: the predictor was given the 30th of February and returned
\* the error outcome
C20_Saksi ==
    /\ hasil.op = "prediksi"
    /\ hasil.deadline = <<2024, 2, 30>>
    /\ hasil.nilai = GalatFormatDeadline

\* the last call was an analyzer call on a non-empty Activities list
AnalisisBerhasil == hasil.op = "analisis" /\ aktivitas # <<>>

\* the sum of the category percentages of the last analysis (hundredths)
JumlahPersentase ==
    JumlahFungsi(hasil.nilai.persentase_waktu, DOMAIN hasil.nilai.persentase_waktu)

\* C21 as stated: for every non-empty Activities list the category
\* percentages of the analysis sum to 100 within 0.01.  Violated by one-hour
\* activities of four categories and three hours of a fifth (14.29 * 4 + 42.86
\* = 100.02), and by a list whose total duration is 0 (no percentage is a
\* number).
C21_JumlahSeratus ==
    AnalisisBerhasil =>
        /\ hasil.nilai.total_waktu_tercatat > 0
        /\ Abs(JumlahPersentase - 10000) <= 1

\* C21 amended: when the total duration is above 0 the percentages of the k
\* categories present sum to 100 within 0.005 * k (each is rounded to two
\* decimals on its own), which is within 0.01 for up to two categories; when
\* the total duration is 0 every percentage is not a number.
C21_JumlahSeratusPerKategori ==
    AnalisisBerhasil =>
        LET persentase_waktu == hasil.nilai.persentase_waktu
            k == Cardinality(DOMAIN persentase_waktu)
        IN  /\ k >= 1
            /\ DOMAIN persentase_waktu = {aktivitas[i].jenis : i \in DOMAIN aktivitas}
            /\ hasil.nilai.total_waktu_tercatat > 0 =>
                   /\ 2 * Abs(JumlahPersentase - 10000) <= k
                   /\ k <= 2 => Abs(JumlahPersentase - 10000) <= 1
            /\ hasil.nilai.total_waktu_tercatat = 0 =>
                   \A j \in DOMAIN persentase_waktu : persentase_waktu[j] = "nan"

\* C21 witness: five categories whose percentages sum to 100.02
C21_Saksi ==
    /\ AnalisisBerhasil
    /\ hasil.nilai.total_waktu_tercatat = 70
    /\ Cardinality(DOMAIN hasil.nilai.persentase_waktu) = 5
    /\ JumlahPersentase = 10002

\* the period of an activity by its start time: the start hour when the text
\* is a time of day HH:MM, hour 12 otherwise; Morning 5..11, Afternoon 12..16,
\* Evening 17..21, LateNight 22, 23 and 0..4
PeriodeMenurutSpesifikasi(waktu_mulai) ==
    LET terbaca == /\ waktu_mulai[1] >= 0 /\ waktu_mulai[1] <= 23
                   /\ waktu_mulai[2] >= 0 /\ waktu_mulai[2] <= 59
        jam == IF terbaca THEN waktu_mulai[1] ELSE 12
    IN  CASE jam \in 5..11 -> "Pagi"
          [] jam \in 12..16 -> "Siang"
          [] jam \in 17..21 -> "Sore/Malam"
          [] jam \in {22, 23} \cup 0..4 -> "Tengah Malam"

\* the positions of the stored activities that the specification puts in a period
PosisiPeriode(p) ==
    {i \in DOMAIN aktivitas : PeriodeMenurutSpesifikasi(aktivitas[i].waktu_mulai) = p}

\* C22: the analysis of a non-empty Activities list is no error and reports
\* exactly the periods that hold an activity, each with the mean productivity
\* of exactly the activities whose start hour is in the period: Morning 5..11,
\* Afternoon 12..16, Evening 17..21, LateNight 22, 23 and 0..4; an activity
\* whose start time is no time of day HH:MM counts as one that starts at
\* 12:00.
C22_PeriodeHari ==
    AnalisisBerhasil =>
        LET waktu_produktif == hasil.nilai.waktu_produktif
        IN  /\ "error" \notin DOMAIN hasil.nilai
            /\ DOMAIN waktu_produktif =
                   {PeriodeMenurutSpesifikasi(aktivitas[i].waktu_mulai) :
                        i \in DOMAIN aktivitas}
            /\ \A p \in DOMAIN waktu_produktif :
                   waktu_produktif[p][1] * Cardinality(PosisiPeriode(p)) =
                       waktu_produktif[p][2]
                           * JumlahFungsi([i \in PosisiPeriode(p) |->
                                              aktivitas[i].produktivitas],
                                          PosisiPeriode(p))

\* C22 witness: an activity whose start time is "24:00" is reported in the
\* afternoon and one that starts at 22:00 in the late night
C22_Saksi ==
    /\ AnalisisBerhasil
    /\ aktivitas = <<AktivitasPadaWaktu(<<24, 0>>), AktivitasPadaWaktu(<<22, 0>>)>>
    /\ DOMAIN hasil.nilai.waktu_produktif = {"Siang", "Tengah Malam"}
    /\ hasil.nilai.waktu_produktif["Siang"] = <<5, 1>>
    /\ hasil.nilai.waktu_produktif["Tengah Malam"] = <<3, 1>>

\* the file was written by simpan_data
BerkasTersimpan == berkas # TidakAda /\ berkas \notin BerkasAsing

\* the record has the value of every member of the JSON object and no other
\* field: null stands for an absent optional field
SamaDenganRekaman(rekaman, data) ==
    /\ DOMAIN rekaman = DOMAIN data
    /\ \A f \in DOMAIN data :
          IF f \in KolomOpsional /\ data[f] = JsonNull
          THEN rekaman[f] = None
          ELSE rekaman[f] = data[f] /\ (f \in KolomOpsional => rekaman[f] # None)

\* the list has the records of the JSON list, one for one in its order
SamaDenganDaftar(daftar, data) ==
    /\ Len(daftar) = Len(data)
    /\ \A i \in 1..Len(data) : SamaDenganRekaman(daftar[i], data[i])

\* C23: a save writes the activities, the tasks and the snapshot of the
\* store to the file and leaves the store alone, and a load of a file that a
\* save wrote makes the store equal to the file field for field and in the
\* same order, absent optional fields absent again, the snapshot included:
\* save then load reproduces the store.
C23_SimpanLaluMuat ==
    [][/\ hasil'.op = "simpan" =>
            /\ SamaDenganDaftar(aktivitas, berkas'.aktivitas)
            /\ SamaDenganDaftar(tugas, berkas'.tugas)
            /\ berkas'.metrik_prokrastinasi = metrik_prokrastinasi
            /\ UNCHANGED <<aktivitas, tugas, metrik_prokrastinasi>>
       /\ (hasil'.op = "muat" /\ BerkasTersimpan) =>
            /\ SamaDenganDaftar(aktivitas', berkas.aktivitas)
            /\ SamaDenganDaftar(tugas', berkas.tugas)
            /\ metrik_prokrastinasi' = berkas.metrik_prokrastinasi
            /\ hasil'.nilai.pesan = "Data berhasil dimuat"
            /\ UNCHANGED berkas]_vars

\* a store with a finished and an unfinished task, an activity and a
\* snapshot has been loaded from the file that a save wrote
C23_Saksi ==
    /\ hasil.op = "muat"
    /\ BerkasTersimpan
    /\ tugas = <<TugasSelesaiLama, TugasBelum>>
    /\ aktivitas = <<AktivitasHiburan>>
    /\ metrik_prokrastinasi = HitungIndeks(<<TugasSelesaiLama>>, <<>>)
    /\ SamaDenganDaftar(tugas, berkas.tugas)
    /\ berkas.tugas[1].tanggal_selesai = TugasSelesaiLama.tanggal_selesai
    /\ berkas.tugas[2].tanggal_selesai = JsonNull
    /\ berkas.metrik_prokrastinasi = metrik_prokrastinasi

\* a load that found the file and its 'mahasiswa' member
MuatBerhasil == hasil.op = "muat" /\ hasil.nilai.pesan = "Data berhasil dimuat"

\* the JSON list of the file under a key, empty when the key is missing
DaftarBerkas(kunci) == IF kunci \in DOMAIN berkas THEN berkas[kunci] ELSE <<>>

WajibAktivitas ==
    {"id_aktivitas", "jenis", "deskripsi", "durasi", "tanggal", "waktu_mulai"}

WajibTugas ==
    {"id_tugas", "mata_kuliah", "deskripsi", "deadline", "tanggal_diberikan",
     "status"}

\* the well-formed records of a JSON list, in its order: those that have
\* every required field and no member that is not a field
RekamanUtuh(daftar, wajib, kolom) ==
    LET Utuh(data) == wajib \subseteq DOMAIN data /\ DOMAIN data \subseteq kolom
    IN  SelectSeq(daftar, Utuh)

\* the list holds the given JSON records one for one in their order
MemuatDaftar(daftar, data) ==
    /\ Len(daftar) = Len(data)
    /\ \A i \in 1..Len(data) : \A f \in DOMAIN data[i] :
          IF f \in KolomOpsional /\ data[i][f] = JsonNull
          THEN daftar[i][f] = None
          ELSE daftar[i][f] = data[i][f]

\* after a load the store holds exactly the well-formed records of the file
\* in their order, whatever malformed records stand between them, and one
\* error line was printed for every record left out
C24_RekamanUtuhDimuat ==
    MuatBerhasil =>
        /\ MemuatDaftar(aktivitas,
                RekamanUtuh(DaftarBerkas("aktivitas"), WajibAktivitas, KolomAktivitas))
        /\ MemuatDaftar(tugas,
                RekamanUtuh(DaftarBerkas("tugas"), WajibTugas, KolomTugas))
        /\ Len(hasil.nilai.galat)
             = (Len(DaftarBerkas("aktivitas")) - Len(aktivitas))
               + (Len(DaftarBerkas("tugas")) - Len(tugas))

\* the numbers of records of the file that the load left out
JumlahDilewati ==
    {Len(DaftarBerkas("aktivitas")) - Len(aktivitas),
     Len(DaftarBerkas("tugas")) - Len(tugas),
     (Len(DaftarBerkas("aktivitas")) - Len(aktivitas))
        + (Len(DaftarBerkas("tugas")) - Len(tugas))}

\* C24: while loading, a malformed activity or task record is skipped on
\* its own, the well-formed records before and after it are loaded in their
\* order, the load is not aborted, and a count of the skipped records is
\* reported: when records were skipped, a number that the load prints is
\* the number of skipped records (of a list or of both).
C24_RekamanRusakDilewati ==
    /\ C24_RekamanUtuhDimuat
    /\ (MuatBerhasil /\ JumlahDilewati # {0}) =>
            \E k \in {"aktivitas", "tugas"} : hasil.nilai[k] \in JumlahDilewati

\* the field holds a date: it is neither None nor the empty text
AdaTanggal(tanggal) == tanggal # None /\ tanggal # TeksKosong

\* every task of the store has one of the four statuses and its
\* tanggal_selesai is not None exactly when its status is "selesai"
C25_TidakNoneBilaSelesai ==
    \A i \in DOMAIN tugas :
        /\ tugas[i].status \in {"belum", "dikerjakan", "selesai", "terlambat"}
        /\ tugas[i].tanggal_selesai # None <=> tugas[i].status = "selesai"

\* C25: after any sequence of menu-2 additions and dummy generations every
\* task of the store has one of the four statuses (pending, in progress,
\* done, late) and has a completion date exactly when its status is done.
C25_SelesaiBertanggal ==
    \A i \in DOMAIN tugas :
        /\ tugas[i].status \in {"belum", "dikerjakan", "selesai", "terlambat"}
        /\ AdaTanggal(tugas[i].tanggal_selesai) <=> tugas[i].status = "selesai"

\* the prediction as a function of a normalized score, the deadline, the
\* difficulty and the current time alone, but for skor_risiko
PrediksiDariSkor(skor_total, deadline, tingkat_kesulitan, hari_ini) ==
    LET hari_tersisa == HariTersisa(deadline, hari_ini)
        risiko == RisikoPenyesuaian(RisikoDasar(skor_total, tingkat_kesulitan),
                                    hari_tersisa)
    IN  [deadline |-> deadline,
         hari_tersisa |-> hari_tersisa,
         tingkat_kesulitan |-> tingkat_kesulitan,
         risiko |-> risiko,
         kategori_risiko |-> KategoriRisiko(risiko),
         tindakan_rekomendasi |-> TindakanRekomendasi(risiko),
         prediksi_selesai |-> PrediksiTanggalSelesai(hari_tersisa, risiko, hari_ini)]

\* C26: with a snapshot cached, the prediction is determined by the cached
\* normalized score, the deadline, the difficulty and the current time: the
\* predictor neither recomputes nor changes the snapshot, and every field of
\* its result is the one that follows from those four values, whatever the
\* tasks and activities of the store are by now.
C26_HanyaDariSkorTersimpan ==
    [][(/\ hasil'.op = "prediksi"
        /\ metrik_prokrastinasi # <<>>
        /\ "hari_tersisa" \in DOMAIN hasil'.nilai) =>
            LET dari_skor == PrediksiDariSkor(metrik_prokrastinasi.skor_total,
                                              hasil'.deadline,
                                              hasil'.tingkat_kesulitan,
                                              hasil'.hari_ini)
            IN  /\ metrik_prokrastinasi' = metrik_prokrastinasi
                /\ hasil'.nilai.deadline = dari_skor.deadline
                /\ hasil'.nilai.hari_tersisa = dari_skor.hari_tersisa
                /\ hasil'.nilai.tingkat_kesulitan = dari_skor.tingkat_kesulitan
                /\ hasil'.nilai.skor_risiko \in SkorRisikoMungkin(dari_skor.risiko)
                /\ hasil'.nilai.kategori_risiko = dari_skor.kategori_risiko
                /\ hasil'.nilai.tindakan_rekomendasi = dari_skor.tindakan_rekomendasi
                /\ hasil'.nilai.prediksi_selesai = dari_skor.prediksi_selesai]_vars

\* a prediction was made from a cached snapshot that the store no longer
\* has: a scorer run now would give another normalized score
C26_Saksi ==
    /\ PrediksiBerhasil
    /\ ~hasil.memanggil_hitung
    /\ tugas # <<>>
    /\ metrik_prokrastinasi # <<>>
    /\ metrik_prokrastinasi.skor_total # HitungIndeks(tugas, aktivitas).skor_total
    /\ hasil.faktor_skor = metrik_prokrastinasi.skor_total

\* C27: a predictor call with a valid deadline, no snapshot cached and no
\* task in the store does not end in the scorer's empty-data error: nothing
\* is cached, the normalized score defaults to 5.0 and the full prediction
\* for that score is returned.
C27_PrediksiTanpaTugas ==
    [][(/\ hasil'.op = "prediksi"
        /\ metrik_prokrastinasi = <<>>
        /\ tugas = <<>>
        /\ TanggalKalender(hasil'.deadline)) =>
            /\ hasil'.memanggil_hitung
            /\ metrik_prokrastinasi' = <<>>
            /\ hasil'.nilai # GalatTugasKosong
            /\ hasil'.faktor_skor = 500
            /\ DOMAIN hasil'.nilai =
                  {"deadline", "hari_tersisa", "tingkat_kesulitan", "skor_risiko",
                   "kategori_risiko", "tindakan_rekomendasi", "prediksi_selesai"}
            /\ hasil'.risiko_dasar = 60000 + hasil'.tingkat_kesulitan * 8000
            /\ hasil'.nilai.kategori_risiko
                  = KategoriRisiko(hasil'.risiko_penyesuaian)]_vars

\* a full prediction from the default score 5.0 was returned for an empty
\* store, and nothing is cached
C27_Saksi ==
    /\ PrediksiBerhasil
    /\ hasil.memanggil_hitung
    /\ tugas = <<>>
    /\ aktivitas = <<>>
    /\ metrik_prokrastinasi = <<>>
    /\ hasil.faktor_skor = 500
    /\ hasil.tingkat_kesulitan = 10
    /\ hasil.nilai.kategori_risiko = "TINGGI"

\* C28: a predictor call with an invalid deadline returns the format error;
\* it leaves a cached snapshot as it is, but with no snapshot cached and a
\* task in the store it has already run the scorer, whose result is cached
\* although the call failed.
C28_GalatDeadlineDanMetrik ==
    [][(hasil'.op = "prediksi" /\ ~TanggalKalender(hasil'.deadline)) =>
            /\ hasil'.nilai = GalatFormatDeadline
            /\ metrik_prokrastinasi # <<>> =>
                    metrik_prokrastinasi' = metrik_prokrastinasi
            /\ (metrik_prokrastinasi = <<>> /\ tugas # <<>>) =>
                    /\ metrik_prokrastinasi' # <<>>
                    /\ metrik_prokrastinasi' = HitungIndeks(tugas, aktivitas)
                    /\ "skor_total" \in DOMAIN metrik_prokrastinasi'
            /\ UNCHANGED <<tugas, aktivitas>>]_vars

\* a call with the deadline 2024-02-30 failed and left the scorer's result
\* of a store with activities cached
C28_Saksi ==
    /\ hasil.op = "prediksi"
    /\ hasil.nilai = GalatFormatDeadline
    /\ hasil.deadline = <<2024, 2, 30>>
    /\ hasil.memanggil_hitung
    /\ tugas = <<TugasTerlambat, TugasSelesaiLama>>
    /\ aktivitas # <<>>
    /\ metrik_prokrastinasi = HitungIndeks(tugas, aktivitas)
    /\ metrik_prokrastinasi.skor_mentah >= 6

\* the tier that the raw score alone gives
TingkatMenurutSkorMentah(skor_mentah) ==
    CASE skor_mentah \in 0..2 -> "RENDAH"
      [] skor_mentah \in 3..4 -> "RENDAH-SEDANG"
      [] skor_mentah \in 5..6 -> "SEDANG"
      [] skor_mentah \in 7..8 -> "SEDANG-TINGGI"
      [] skor_mentah \in 9..11 -> "TINGGI"

\* C29: in every snapshot the scorer stores, the tier is the one of the raw
\* score alone (0..2, 3..4, 5..6, 7..8, 9..11); and when the store has no
\* activity, only the late-share and the completion-lag factor are assessed,
\* the raw score is at most 6, the normalized score at most 5.45, and the
\* tier is none of the two highest.
C29_TingkatMenurutSkorMentah ==
    HitungBerhasil =>
        /\ metrik_prokrastinasi.skor_mentah \in 0..11
        /\ metrik_prokrastinasi.tingkat
             = TingkatMenurutSkorMentah(metrik_prokrastinasi.skor_mentah)
        /\ aktivitas = <<>> =>
              /\ DOMAIN metrik_prokrastinasi.faktor_penilaian
                    \subseteq {"keterlambatan", "waktu_pengerjaan"}
              /\ metrik_prokrastinasi.skor_mentah <= 6
              /\ metrik_prokrastinasi.skor_total <= 545
              /\ metrik_prokrastinasi.tingkat
                    \in {"RENDAH", "RENDAH-SEDANG", "SEDANG"}

\* without activities the two task factors both scored 3: raw score 6,
\* normalized score 5.45, tier SEDANG
C29_Saksi ==
    /\ HitungBerhasil
    /\ aktivitas = <<>>
    /\ metrik_prokrastinasi.faktor_penilaian.keterlambatan.skor = 3
    /\ "waktu_pengerjaan" \in DOMAIN metrik_prokrastinasi.faktor_penilaian
    /\ metrik_prokrastinasi.faktor_penilaian.waktu_pengerjaan.skor = 3
    /\ metrik_prokrastinasi.skor_mentah = 6
    /\ metrik_prokrastinasi.skor_total = 545
    /\ metrik_prokrastinasi.tingkat = "SEDANG"

\* the days remaining that the bounds of the predicted day are checked for
HariTersisaContoh == 1..60

\* C30: for every risk in [0, 1] and every days_remaining >= 1 the predicted
\* completion day is at least one day and at most days_remaining days after
\* today, so never past the deadline; the predicted date is today exactly
\* when days_remaining is 0, which is the case for every past deadline.
C30_TanggalPrediksiDalamBatas ==
    /\ KeadaanAwalKosong =>
            \A risiko \in RisikoContoh, hari_tersisa \in HariTersisaContoh :
                /\ HariPrediksi(hari_tersisa, risiko) >= 1
                /\ HariPrediksi(hari_tersisa, risiko) <= hari_tersisa
    /\ PrediksiBerhasil =>
            LET hari_tersisa == hasil.nilai.hari_tersisa
                hari_ini == Ordinal(hasil.hari_ini[1])
                prediksi == Ordinal(hasil.nilai.prediksi_selesai)
                deadline == Ordinal(hasil.deadline)
            IN  /\ hari_tersisa >= 0
                /\ hari_tersisa >= 1 =>
                        /\ prediksi >= hari_ini + 1
                        /\ prediksi <= hari_ini + hari_tersisa
                        /\ prediksi <= deadline
                /\ prediksi = hari_ini <=> hari_tersisa = 0
                /\ deadline < hari_ini => hari_tersisa = 0

\* one day remains (the deadline is the day after tomorrow's midnight minus
\* eleven hours): 0.8 of a day would be day 0, the prediction is tomorrow
C30_Saksi ==
    /\ PrediksiBerhasil
    /\ hasil.hari_ini = <<<<2024, 1, 30>>, 13>>
    /\ hasil.deadline = <<2024, 2, 1>>
    /\ hasil.nilai.hari_tersisa = 1
    /\ hasil.nilai.prediksi_selesai = <<2024, 1, 31>>


=============================================================================
